---- MODULE Spec2Model ----
(***************************************************************************)
(* GreenOps: the shutdown-command dispatch protocol of the backend         *)
(* (app/services/command_service.py, app/services/machine_service.py,     *)
(* app/api/v1/endpoints) and the agent's command handling                  *)
(* (agent/greenops_agent.py); the telemetry, status and reaper rules of    *)
(* the backend; the agent registry and telemetry of the FastAPI service   *)
(* under src/server; its operators, sessions (login, lockout, refresh,    *)
(* logout), role values and admin bootstrap (routers/auth.py); and the    *)
(* backend's /auth.                                                        *)
(*                                                                         *)
(* Units.  Wall-clock time is in seconds.  The float totals of the Machine *)
(* row are kept as integers: idle time in minutes (total_idle_hours * 60), *)
(* energy in micro-kWh (round(.., 6) of a kWh value), CO2 in micro-kg      *)
(* (round(.., 6)), cost in 1e-4 USD (round(.., 4)).                        *)
(* A nullable column is a set: {} is NULL, {v} is the value v.             *)
(***************************************************************************)
EXTENDS Integers, Sequences, FiniteSets, TLC

\* ---- bounds of the model ------------------------------------------------
MaxCommands == 2
MaxMetrics == 2
MaxTime == 310
TickSeconds == 310
MaxTokens == 2
MaxHeartbeats == 2
MaxRefreshTokens == 2
LoginTickSeconds == 450
MaxLoginTime == 1800
SessionTickSeconds == 1296001
MaxSessionTime == 3888003
MaxBootRuns == 2
\* offline_queue_max of the agent's configuration, scaled down
offline_queue_max == 2
MaxBeats == 4
MaxRegistrations == 2
MaxWrongLogins == 10

\* ---- constants of the program ------------------------------------------
\* _wait_for_database(max_attempts=10, ..)
max_attempts == 10

\* ---- inputs ------------------------------------------------------------
Macs == {"AA:AA", "BB:BB"}
\* the hosts whose agent service is started; on the others only --register-only is run
ServiceHosts == {"AA:AA"}
MachineIds == 1..Cardinality(Macs)
\* command ids of requests; one not yet in the table is an unknown command
CommandIds == 1..MaxCommands
\* idle_threshold_minutes of a request: the schema's default, and one below it
Thresholds == {10, 15}
DefaultThresholds == {15}
IdleValues == {0, 15}
\* bodies of POST /agents/commands/result
ResultInputs == {[executed |-> TRUE, reason |-> {}],
                 [executed |-> FALSE, reason |-> {"Machine not idle"}]}
Workers == {"w1", "w2"}
\* src/server: the raw bearer tokens of requests; one never issued is a forged token
RawTokens == 1..MaxTokens
\* src/server: the idle_seconds of heartbeat bodies (0 <= idle_seconds <= 86400)
IdleSeconds == {0, 60, 300}
ServerMachineIds == 1..2

\* ---- program constants -------------------------------------------------
SHUTDOWN_COMMAND_TTL_SECONDS == 120
IDLE_STATUS_MINUTES == 15
OFFLINE_AFTER_MINUTES == 5
IDLE_UKWH_PER_HOUR == 120000
CO2_G_PER_KWH == 386
COST_MILLIUSD_PER_KWH == 120
\* src/server/config.py and routers/agents.py
IDLE_POWER_WATTS == 65
ELECTRICITY_COST_CENTS_PER_KWH == 12
IDLE_THRESHOLD_SECONDS == 300
OFFLINE_THRESHOLD_SECONDS == 180
MAC_LENGTH == 17
\* src/agent/agent.py DEFAULT_CONFIG
HEARTBEAT_INTERVAL == 60
\* src/server/routers/auth.py and config.py
ACCOUNT_LOCKOUT_THRESHOLD == 10
ACCOUNT_LOCKOUT_MINUTES == 15
ACCESS_TOKEN_EXPIRE_MINUTES == 60
REFRESH_TOKEN_EXPIRE_DAYS == 30
\* src/backend/app/core/config.py
JWT_ACCESS_TOKEN_EXPIRE_MINUTES == 30
JWT_REFRESH_TOKEN_EXPIRE_DAYS == 7

VARIABLES
    now,             \* datetime.now(timezone.utc), seconds
    machines,        \* table machines: sequence of rows, id = index
    commands,        \* table shutdown_commands: sequence of rows, id = index
    energy_metrics,  \* table energy_metrics (append-only)
    audit_logs,      \* table audit_logs, as the set of distinct (action, resource_id, executed)
    agent,           \* one GreenOpsAgent process per host (by MAC)
    resp,            \* the last HTTP response the backend gave
    issue_tx,        \* in-flight issue_shutdown transactions, per backend worker
    server_machines, \* src/server: table machines, id = index
    heartbeats,      \* src/server: table heartbeats (append-only)
    agent_tokens,    \* src/server: table agent_tokens, id = index
    tokens_issued,   \* src/server: how many raw agent tokens were generated
    server_resp,     \* src/server: the last HTTP response
    users,           \* src/server: table users, id = index
    refresh_tokens,  \* src/server: table refresh_tokens, id = index
    refresh_issued,  \* src/server: how many raw refresh tokens were generated
    auth_resp,       \* src/server: the last response of the auth router
    boot,            \* src/server: one ensure_admin_exists call per worker process
    advisory_lock,   \* src/server: holder of pg_advisory_xact_lock(_ADMIN_INIT_LOCK_KEY)
    boot_log,        \* src/server: how often each bootstrap log event was emitted
    role_call,       \* src/server: the last UserRole(value) / _coerce_role(value) call
    backend_users,   \* backend: table users, id = index
    backend_auth_resp, \* backend: the last response of /auth
    qagent,          \* src/agent/agent.py: the GreenOpsAgent process (config, queue, loop)
    disk,            \* src/agent/agent.py: config.json and offline_queue.json on disk
    last_post,       \* src/agent/agent.py: the HTTP requests of the agent's last step
    startup,         \* src/server: the lifespan of the process (step, attempts, exit)
    sessions         \* the database sessions of requests handled at the same time

\* the state of the FastAPI service under src/server
server_vars == <<server_machines, heartbeats, agent_tokens, tokens_issued, server_resp>>

\* the operators, sessions and admin bootstrap of src/server, and the backend's /auth
auth_vars == <<users, refresh_tokens, refresh_issued, auth_resp, boot, advisory_lock,
               boot_log, role_call, backend_users, backend_auth_resp>>

\* the agent of src/agent/agent.py and the processes of the later sections
offline_vars == <<qagent, disk, last_post>>

\* the startup of src/server and the sessions of concurrent requests
run_vars == <<startup, sessions>>

proc_vars == <<offline_vars, run_vars>>

vars == <<now, machines, commands, energy_metrics, audit_logs, agent, resp, issue_tx,
          server_vars, auth_vars, proc_vars>>

\* ---- helpers -----------------------------------------------------------
Min(a, b) == IF a <= b THEN a ELSE b

\* Python round(a / b) for b > 0 (ties do not occur for the values used)
RoundDiv(a, b) == IF a >= 0 THEN (2 * a + b) \div (2 * b)
                  ELSE 0 - ((2 * (0 - a) + b) \div (2 * b))

NoResp == [op |-> "none", code |-> 0, machine_id |-> 0, command_id |-> {},
           executed |-> FALSE, reason |-> {}, detail |-> "", count |-> 0]

NoServerResp == [op |-> "none", code |-> 0, machine_id |-> 0, token |-> {},
                 machine_status |-> "", energy_wasted_kwh |-> 0, raw |-> <<>>,
                 idle_seconds |-> 0]

IdleTx == [pc |-> "idle", machine_id |-> 0, threshold |-> 0, existing |-> {}]

\* src/server: no response of the auth router yet; a response echoes the request's
\* username (sanitized), password, presented refresh token and caller; error is the
\* "error" key of the detail of a refused login
NoAuthResp == [op |-> "none", code |-> 0, username |-> <<>>, password |-> "",
               raw |-> 0, caller |-> 0, access_token |-> {}, refresh_token |-> {},
               error |-> ""]

\* src/server: a worker that has not called ensure_admin_exists; commits, rollbacks
\* and adds count the calls on the session of the current call
BootIdle == [pc |-> "idle", password |-> "", fault |-> "none", commits |-> 0,
             rollbacks |-> 0, adds |-> 0, outcome |-> "", event |-> "", runs |-> 0]

NoBootLog == [admin_already_exists |-> 0, admin_user_created |-> 0,
              admin_creation_skipped |-> 0,
              startup_enum_check_failed |-> 0, ensure_admin_exists_db_error |-> 0]

NoRoleCall == [value |-> [kind |-> "none", v |-> 0], user_role |-> {}, coerced |-> {}]

NoBackendAuthResp == [op |-> "none", code |-> 0, presented |-> {}, tokens |-> {}]

AgentOff == [pc |-> "off", machine_id |-> {}, command_id |-> {}, command_type |-> "",
             threshold |-> 0, current_idle |-> 0, reported |-> {}]

\* ---- energy (app/utils/calculations.py) --------------------------------
calculate_energy_kwh(idle_minutes) == RoundDiv(idle_minutes * IDLE_UKWH_PER_HOUR, 60)

calculate_co2_kg(kwh) == RoundDiv(kwh * CO2_G_PER_KWH, 1000)

calculate_cost_usd(kwh) == RoundDiv(kwh * COST_MILLIUSD_PER_KWH, 100000)

calculate_all(idle_minutes) ==
    LET kwh == calculate_energy_kwh(idle_minutes)
    IN  [energy_kwh |-> kwh, co2_kg |-> calculate_co2_kg(kwh),
         cost_usd |-> calculate_cost_usd(kwh)]

\* ---- machine registry (MachineService) ---------------------------------
\* select(Machine).where(Machine.mac_address == mac): the matching ids
machine_by_mac(ms, mac) == {i \in DOMAIN ms : ms[i].mac_address = mac}

NewMachine(mac, t) ==
    [mac_address |-> mac, status |-> "active", idle_minutes |-> 0, last_seen |-> t,
     total_idle_minutes |-> 0, total_energy_kwh |-> 0, total_co2_kg |-> 0,
     total_cost_usd |-> 0]

\* MachineService.register_agent: the machines table afterwards
register_agent(ms, mac, t) ==
    LET existing == machine_by_mac(ms, mac)
    IN  IF existing # {}
        THEN [i \in DOMAIN ms |->
                IF i \in existing
                THEN [ms[i] EXCEPT !.last_seen = t, !.status = "active"]
                ELSE ms[i]]
        ELSE Append(ms, NewMachine(mac, t))

\* the status a heartbeat with this idle time gives
heartbeat_status(idle_minutes) ==
    IF idle_minutes >= IDLE_STATUS_MINUTES THEN "idle" ELSE "active"

\* MachineService.process_heartbeat: the Machine row afterwards
process_heartbeat(m, idle_minutes, t) ==
    LET interval_idle_minutes == Min(idle_minutes, 1)
        energy == calculate_all(interval_idle_minutes)
    IN  [m EXCEPT !.idle_minutes = idle_minutes,
                  !.last_seen = t,
                  !.status = heartbeat_status(idle_minutes),
                  !.total_idle_minutes = @ + interval_idle_minutes,
                  !.total_energy_kwh = @ + energy.energy_kwh,
                  !.total_co2_kg = @ + energy.co2_kg,
                  !.total_cost_usd = @ + energy.cost_usd]

\* the EnergyMetric row a heartbeat records
heartbeat_metric(mid, idle_minutes) ==
    LET energy == calculate_all(Min(idle_minutes, 1))
    IN  [machine_id |-> mid, idle_minutes |-> idle_minutes,
         energy_kwh |-> energy.energy_kwh, co2_kg |-> energy.co2_kg,
         cost_usd |-> energy.cost_usd]

\* faulty variant: the status filter of the select is missing
offline_candidates_any_status(ms, t) ==
    {i \in DOMAIN ms : ms[i].last_seen < t - OFFLINE_AFTER_MINUTES * 60}

\* MachineService.mark_offline_machines: the ids the reaper selects
offline_candidates(ms, t) ==
    {i \in DOMAIN ms : /\ ms[i].last_seen < t - OFFLINE_AFTER_MINUTES * 60
                       /\ ms[i].status \in {"active", "idle"}}

\* faulty variant: the assignments are never written back
mark_offline_machines_unsaved(ms, t) == ms

mark_offline_machines(ms, t) ==
    [i \in DOMAIN ms |->
        IF i \in offline_candidates(ms, t) THEN [ms[i] EXCEPT !.status = "offline"]
        ELSE ms[i]]

\* ---- command dispatcher (CommandService) -------------------------------
\* faulty variant: the status guard also lets offline machines through
issue_error_offline_ok(ms, mid) ==
    IF mid \notin DOMAIN ms THEN "Machine not found"
    ELSE IF ms[mid].status \notin {"idle", "offline"}
         THEN "Shutdown only allowed for idle machines"
         ELSE ""

\* issue_shutdown's guard: "" when the command may be issued, else the ValueError
issue_error(ms, mid) ==
    IF mid \notin DOMAIN ms THEN "Machine not found"
    ELSE IF ms[mid].status \notin {"idle"}
         THEN "Shutdown only allowed for idle machines"
         ELSE ""

\* select(ShutdownCommand).where(machine_id == mid, status == "pending")
pending_of(cmds, mid) ==
    {i \in DOMAIN cmds : cmds[i].machine_id = mid /\ cmds[i].status = "pending"}

\* faulty variant: the loop over the existing rows assigns nothing
expire_all_skipped(cmds, ids) == cmds

\* for cmd in existing: cmd.status = "expired"
expire_all(cmds, ids) ==
    [i \in DOMAIN cmds |->
        IF i \in ids THEN [cmds[i] EXCEPT !.status = "expired"] ELSE cmds[i]]

NewCommand(mid, threshold, t) ==
    [machine_id |-> mid, status |-> "pending", idle_threshold_minutes |-> threshold,
     rejection_reason |-> {}, expires_at |-> t + SHUTDOWN_COMMAND_TTL_SECONDS,
     executed_at |-> {}]

\* faulty variant: the new row is added without cancelling the rows read
issue_commit_no_cancel(cmds, existing, mid, threshold, t) ==
    Append(cmds, NewCommand(mid, threshold, t))

\* issue_shutdown after its guard, given the pending rows it read: the table at commit
issue_commit(cmds, existing, mid, threshold, t) ==
    Append(expire_all(cmds, existing), NewCommand(mid, threshold, t))

\* get_pending_command: the overdue pending rows
stale_of(cmds, mid, t) ==
    {i \in pending_of(cmds, mid) : cmds[i].expires_at < t}

\* get_pending_command: the table after the overdue rows are expired
expire_stale(cmds, mid, t) == expire_all(cmds, stale_of(cmds, mid, t))

\* get_pending_command: the rows of the final select
live_of(cmds, mid, t) ==
    {i \in pending_of(cmds, mid) : cmds[i].expires_at >= t}

\* faulty variant: the guard looks the command up but does not compare its machine
result_error_any_machine(cmds, cid, mid) ==
    IF cid \notin DOMAIN cmds THEN "Command not found" ELSE ""

\* process_command_result's guard
result_error(cmds, cid, mid) ==
    IF cid \notin DOMAIN cmds \/ cmds[cid].machine_id # mid
    THEN "Command not found" ELSE ""

\* faulty variant: the rejection branch drops the reason
result_command_no_reason(cmd, executed, reason, t) ==
    IF executed
    THEN [cmd EXCEPT !.status = "executed", !.executed_at = {t}]
    ELSE [cmd EXCEPT !.status = "rejected"]

\* process_command_result: the command row afterwards
result_command(cmd, executed, reason, t) ==
    IF executed
    THEN [cmd EXCEPT !.status = "executed", !.executed_at = {t}]
    ELSE [cmd EXCEPT !.status = "rejected", !.rejection_reason = reason]

\* faulty variant: the machine row is left alone on an executed result
result_machine_untouched(m, executed) == m

\* process_command_result: the machine row afterwards
result_machine(m, executed) ==
    IF executed THEN [m EXCEPT !.status = "shutdown"] ELSE m

result_audit(cid, executed) ==
    [action |-> IF executed THEN "shutdown_executed" ELSE "shutdown_rejected",
     resource_id |-> cid, executed |-> executed]

\* ---- the state after construction --------------------------------------
\* src/agent/agent.py: a file that does not exist; a file is missing, truncated
\* (opened for writing, nothing written yet) or complete with its JSON body
NoFile == [state |-> "missing", body |-> <<>>]

NoDisk == [config |-> NoFile, queue |-> NoFile]

\* src/agent/agent.py: GreenOpsAgent() on a host with no files: config holds the
\* defaults (no agent_token, no machine_id), the client has no token, the queue
\* is empty; beats counts the heartbeats built (a payload is its timestamp),
\* regs the registrations the server accepted, saving names the file a save is at
NewAgent == [pc |-> "start", agent_token |-> {}, machine_id |-> {}, client_token |-> {},
             queue |-> <<>>, beats |-> 0, regs |-> 0, saving |-> {}]

\* src/agent/agent.py: no request sent in the last step
NoPost == [op |-> "none", path |-> "", outcome |-> "", token |-> {}, payloads |-> <<>>]

\* src/server: the process before lifespan runs; done lists the steps of
\* lifespan that went through, db_ready is what _wait_for_database returned
NotStarted == [pc |-> "config", settings |-> {}, attempts |-> 0, db_ready |-> {},
               schema_ready |-> {}, done |-> <<>>, exit_code |-> {}]

\* a worker that handles no request: op is the handler, id and loaded the row
\* its session loaded, selected the ids of a select, input the request's value;
\* wrong_done counts the wrong-password logins the worker answered, granted
\* lists the refresh tokens it answered with an access token
NoSession == [pc |-> "idle", op |-> "", id |-> 0, loaded |-> {}, selected |-> {},
              input |-> 0, wrong_done |-> 0, granted |-> <<>>]

InitStore ==
    /\ now = 0
    /\ machines = <<>>
    /\ commands = <<>>
    /\ energy_metrics = <<>>
    /\ audit_logs = {}
    /\ agent = [mac \in Macs |-> AgentOff]
    /\ resp = NoResp
    /\ issue_tx = [w \in Workers |-> IdleTx]
    /\ server_machines = <<>>
    /\ heartbeats = <<>>
    /\ agent_tokens = <<>>
    /\ tokens_issued = 0
    /\ server_resp = NoServerResp
    /\ refresh_tokens = <<>>
    /\ refresh_issued = 0
    /\ auth_resp = NoAuthResp
    /\ boot = [w \in Workers |-> BootIdle]
    /\ advisory_lock = {}
    /\ boot_log = NoBootLog
    /\ role_call = NoRoleCall
    /\ backend_users = <<>>
    /\ backend_auth_resp = NoBackendAuthResp
    /\ qagent = NewAgent
    /\ disk = NoDisk
    /\ last_post = NoPost
    /\ startup = NotStarted
    /\ sessions = [w \in Workers |-> NoSession]

\* before the first start of the service the users table is empty
Init == InitStore /\ users = <<>>

\* wall-clock time passes
Tick ==
    /\ now + TickSeconds <= MaxTime
    /\ now' = now + TickSeconds
    /\ resp' = NoResp
    /\ UNCHANGED <<machines, commands, energy_metrics, audit_logs, agent, issue_tx>>
    /\ UNCHANGED <<server_machines, heartbeats, agent_tokens, tokens_issued>>
    /\ server_resp' = NoServerResp
    /\ UNCHANGED <<proc_vars, auth_vars>>

\* ---- HTTP responses ----------------------------------------------------
\* resp is the answer of the step just taken, with the request's fields echoed
Response(op, code, mid, cids, executed, reason, detail) ==
    [op |-> op, code |-> code, machine_id |-> mid, command_id |-> cids,
     executed |-> executed, reason |-> reason, detail |-> detail, count |-> 0]

TheOne(S) == CHOOSE x \in S : TRUE

\* the response of an endpoint that ends in get_pending_command:
\* scalar_one_or_none raises MultipleResultsFound on two live rows (a 500)
pending_response(op, mid, live) ==
    IF Cardinality(live) > 1
    THEN Response(op, 500, mid, {}, FALSE, {}, "MultipleResultsFound")
    ELSE Response(op, 200, mid, live, FALSE, {}, "")

\* ---- the backend's handlers, each one transaction -----------------------
\* POST /agents/register
ServeRegister(mac) ==
    /\ machines' = register_agent(machines, mac, now)
    /\ resp' = Response("register", 201, TheOne(machine_by_mac(machines', mac)),
                        {}, FALSE, {}, "")
    /\ UNCHANGED <<commands, energy_metrics, audit_logs>>

\* POST /agents/heartbeat for the machine the API key names
ServeHeartbeat(mid, idle_minutes) ==
    /\ machines' = [machines EXCEPT ![mid] = process_heartbeat(@, idle_minutes, now)]
    /\ energy_metrics' = Append(energy_metrics, heartbeat_metric(mid, idle_minutes))
    /\ commands' = expire_stale(commands, mid, now)
    /\ resp' = pending_response("heartbeat", mid, live_of(commands', mid, now))
    /\ UNCHANGED audit_logs

\* GET /agents/commands/poll
ServePoll(mid) ==
    /\ commands' = expire_stale(commands, mid, now)
    /\ resp' = pending_response("poll", mid, live_of(commands', mid, now))
    /\ UNCHANGED <<machines, energy_metrics, audit_logs>>

\* POST /agents/commands/result
ServeResult(mid, cid, executed, reason) ==
    /\ IF result_error(commands, cid, mid) # ""
       THEN /\ resp' = Response("result", 400, mid, {cid}, executed, reason,
                                result_error(commands, cid, mid))
            /\ UNCHANGED <<commands, machines, audit_logs>>
       ELSE /\ commands' = [commands EXCEPT ![cid] = result_command(@, executed, reason, now)]
            /\ machines' = [machines EXCEPT ![mid] = result_machine(@, executed)]
            /\ audit_logs' = audit_logs \cup {result_audit(cid, executed)}
            /\ resp' = Response("result", 200, mid, {cid}, executed, reason, "recorded")
    /\ UNCHANGED energy_metrics

\* the audit row of issue_shutdown; cmd.id is still None when it is built
issue_audit == [action |-> "shutdown_command_issued", resource_id |-> 0, executed |-> FALSE]

\* POST /commands/shutdown by an admin
ServeIssue(mid, threshold) ==
    /\ IF issue_error(machines, mid) # ""
       THEN /\ resp' = Response("issue", 400, mid, {}, FALSE, {}, issue_error(machines, mid))
            /\ UNCHANGED <<commands, audit_logs>>
       ELSE /\ Len(commands) < MaxCommands
            /\ commands' = issue_commit(commands, pending_of(commands, mid), mid, threshold, now)
            /\ audit_logs' = audit_logs \cup {issue_audit}
            /\ resp' = Response("issue", 201, mid, {Len(commands')}, FALSE, {}, "")
    /\ UNCHANGED <<machines, energy_metrics>>

\* the machines whose agent service runs (the senders of heartbeats and polls)
ServiceMachines == {i \in DOMAIN machines : machines[i].mac_address \in ServiceHosts}

\* ---- specification Spec: the backend under any sequence of requests -----
RegisterAgent(mac) ==
    /\ ServeRegister(mac)
    /\ UNCHANGED <<proc_vars, auth_vars, server_vars, now, agent, issue_tx>>

Heartbeat(mid, idle_minutes) ==
    /\ mid \in ServiceMachines
    /\ Len(energy_metrics) < MaxMetrics
    /\ ServeHeartbeat(mid, idle_minutes)
    /\ UNCHANGED <<proc_vars, auth_vars, server_vars, now, agent, issue_tx>>

Poll(mid) ==
    /\ mid \in ServiceMachines
    /\ ServePoll(mid)
    /\ UNCHANGED <<proc_vars, auth_vars, server_vars, now, agent, issue_tx>>

\* a result report from any holder of a machine's API key
CommandResult(mid, cid, executed, reason) ==
    /\ mid \in DOMAIN machines
    /\ ServeResult(mid, cid, executed, reason)
    /\ UNCHANGED <<proc_vars, auth_vars, server_vars, now, agent, issue_tx>>

IssueShutdown(mid, threshold) ==
    /\ ServeIssue(mid, threshold)
    /\ UNCHANGED <<proc_vars, auth_vars, server_vars, now, agent, issue_tx>>

\* the celery beat task mark_offline_machines_task; it returns the count
MarkOffline ==
    /\ machines' = mark_offline_machines(machines, now)
    /\ resp' = [NoResp EXCEPT !.op = "mark_offline",
                              !.count = Cardinality(offline_candidates(machines, now))]
    /\ UNCHANGED <<proc_vars, auth_vars, server_vars, now, commands, energy_metrics, audit_logs, agent, issue_tx>>

Next ==
    \/ Tick
    \/ \E mac \in Macs : RegisterAgent(mac)
    \/ \E mid \in MachineIds, i \in IdleValues : Heartbeat(mid, i)
    \/ \E mid \in MachineIds : Poll(mid)
    \/ \E mid \in MachineIds, cid \in CommandIds, r \in ResultInputs :
           CommandResult(mid, cid, r.executed, r.reason)
    \/ \E mid \in MachineIds, th \in DefaultThresholds : IssueShutdown(mid, th)
    \/ MarkOffline

Spec == Init /\ [][Next]_vars

\* ---- specification SpecAgent: one agent process against the backend -----
\* GreenOpsAgent.register -> POST /agents/register; the credentials are saved
AgentRegister(mac) ==
    /\ agent[mac].pc = "off"
    /\ ServeRegister(mac)
    /\ agent' = [agent EXCEPT ![mac].machine_id = {resp'.machine_id}]
    /\ UNCHANGED <<proc_vars, auth_vars, server_vars, now, issue_tx>>

\* GreenOpsAgent.run with saved credentials: the main loop starts
AgentRun(mac) ==
    /\ mac \in ServiceHosts
    /\ agent[mac].pc = "off"
    /\ agent[mac].machine_id # {}
    /\ agent' = [agent EXCEPT ![mac].pc = "loop"]
    /\ resp' = NoResp
    /\ UNCHANGED <<proc_vars, auth_vars, server_vars, now, machines, commands, energy_metrics, audit_logs, issue_tx>>

\* the loop's heartbeat
AgentHeartbeat(mac, idle_minutes) ==
    /\ agent[mac].pc = "loop"
    /\ Len(energy_metrics) < MaxMetrics
    /\ ServeHeartbeat(TheOne(agent[mac].machine_id), idle_minutes)
    /\ UNCHANGED <<proc_vars, auth_vars, server_vars, now, agent, issue_tx>>

\* the loop's command poll; a command in the answer enters _handle_command
AgentPoll(mac) ==
    /\ agent[mac].pc = "loop"
    /\ ServePoll(TheOne(agent[mac].machine_id))
    /\ agent' = IF resp'.code = 200 /\ resp'.command_id # {}
                THEN [agent EXCEPT ![mac].pc = "handle",
                                   ![mac].command_id = resp'.command_id,
                                   ![mac].command_type = "shutdown",
                                   ![mac].threshold =
                                       commands'[TheOne(resp'.command_id)].idle_threshold_minutes]
                ELSE agent
    /\ UNCHANGED <<proc_vars, auth_vars, server_vars, now, issue_tx>>

\* faulty variant: the idle comparison is dropped: every shutdown command is executed
handle_decision_no_check(command_type, threshold, current_idle) ==
    IF command_type # "shutdown"
    THEN [executed |-> FALSE, reason |-> {"Unknown command type"}, next |-> "return"]
    ELSE [executed |-> TRUE, reason |-> {}, next |-> "sleep"]

\* what _handle_command decides: the report it sends and where it goes next
handle_decision(command_type, threshold, current_idle) ==
    IF command_type # "shutdown"
    THEN [executed |-> FALSE, reason |-> {"Unknown command type"}, next |-> "return"]
    ELSE IF current_idle < threshold
         THEN [executed |-> FALSE, reason |-> {"Machine not idle"}, next |-> "return"]
         ELSE [executed |-> TRUE, reason |-> {}, next |-> "sleep"]

\* GreenOpsAgent._handle_command: measure idle, decide, report (best effort: a
\* report that fails in transport is dropped)
HandleCommand(mac, current_idle, delivered) ==
    /\ agent[mac].pc = "handle"
    /\ LET a == agent[mac]
           d == handle_decision(a.command_type, a.threshold, current_idle)
       IN  /\ agent' = [agent EXCEPT ![mac].pc = d.next,
                                     ![mac].current_idle = current_idle,
                                     ![mac].reported =
                                         {[executed |-> d.executed, reason |-> d.reason]}]
           /\ IF delivered
              THEN ServeResult(TheOne(a.machine_id), TheOne(a.command_id), d.executed, d.reason)
              ELSE /\ resp' = NoResp
                   /\ UNCHANGED <<commands, machines, audit_logs, energy_metrics>>
    /\ UNCHANGED <<proc_vars, auth_vars, server_vars, now, issue_tx>>

\* _handle_command returns to the loop of run(); its locals are gone
HandleReturn(mac) ==
    /\ agent[mac].pc = "return"
    /\ agent' = [agent EXCEPT ![mac] = [AgentOff EXCEPT !.pc = "loop",
                                                        !.machine_id = agent[mac].machine_id]]
    /\ resp' = NoResp
    /\ UNCHANGED <<proc_vars, auth_vars, server_vars, now, machines, commands, energy_metrics, audit_logs, issue_tx>>

\* perform_shutdown(): the host goes down, the agent process with it
PerformShutdown(mac) ==
    /\ agent[mac].pc = "sleep"
    /\ agent' = [agent EXCEPT ![mac] = [AgentOff EXCEPT !.machine_id = agent[mac].machine_id]]
    /\ resp' = NoResp
    /\ UNCHANGED <<proc_vars, auth_vars, server_vars, now, machines, commands, energy_metrics, audit_logs, issue_tx>>

NextAgent ==
    \/ Tick
    \/ \E mac \in Macs : AgentRegister(mac)
    \/ \E mac \in Macs : AgentRun(mac)
    \/ \E mac \in Macs, i \in IdleValues : AgentHeartbeat(mac, i)
    \/ \E mac \in Macs : AgentPoll(mac)
    \/ \E mac \in Macs, i \in IdleValues, delivered \in BOOLEAN : HandleCommand(mac, i, delivered)
    \/ \E mac \in Macs : HandleReturn(mac)
    \/ \E mac \in Macs : PerformShutdown(mac)
    \/ \E mid \in MachineIds, th \in Thresholds : IssueShutdown(mid, th)

SpecAgent == Init /\ [][NextAgent]_vars

\* ---- specification SpecConc: issue_shutdown on two workers ---------------
\* The session reads the machine, selects the pending rows, and only at commit
\* flushes its UPDATEs and its INSERT; another worker's transaction may commit
\* between any two of these statements.
IssueBegin(w, mid, threshold) ==
    /\ issue_tx[w].pc = "idle"
    /\ IF issue_error(machines, mid) # ""
       THEN /\ resp' = Response("issue", 400, mid, {}, FALSE, {}, issue_error(machines, mid))
            /\ UNCHANGED issue_tx
       ELSE /\ resp' = NoResp
            /\ issue_tx' = [issue_tx EXCEPT ![w] = [pc |-> "checked", machine_id |-> mid,
                                                    threshold |-> threshold, existing |-> {}]]
    /\ UNCHANGED <<proc_vars, auth_vars, server_vars, now, machines, commands, energy_metrics, audit_logs, agent>>

IssueSelect(w) ==
    /\ issue_tx[w].pc = "checked"
    /\ issue_tx' = [issue_tx EXCEPT ![w].pc = "selected",
                                    ![w].existing = pending_of(commands, issue_tx[w].machine_id)]
    /\ resp' = NoResp
    /\ UNCHANGED <<proc_vars, auth_vars, server_vars, now, machines, commands, energy_metrics, audit_logs, agent>>

IssueCommit(w) ==
    /\ issue_tx[w].pc = "selected"
    /\ Len(commands) < MaxCommands
    /\ LET tx == issue_tx[w]
       IN  /\ commands' = issue_commit(commands, tx.existing, tx.machine_id, tx.threshold, now)
           /\ resp' = Response("issue", 201, tx.machine_id, {Len(commands')}, FALSE, {}, "")
    /\ audit_logs' = audit_logs \cup {issue_audit}
    /\ issue_tx' = [issue_tx EXCEPT ![w] = IdleTx]
    /\ UNCHANGED <<proc_vars, auth_vars, server_vars, now, machines, energy_metrics, agent>>

NextConc ==
    \/ Tick
    \/ \E mac \in Macs : RegisterAgent(mac)
    \/ \E mid \in MachineIds, i \in IdleValues : Heartbeat(mid, i)
    \/ \E mid \in MachineIds : Poll(mid)
    \/ \E w \in Workers, mid \in MachineIds, th \in DefaultThresholds : IssueBegin(w, mid, th)
    \/ \E w \in Workers : IssueSelect(w)
    \/ \E w \in Workers : IssueCommit(w)

SpecConc == Init /\ [][NextConc]_vars

\* ======================================================================
\* The FastAPI service under src/server (routers/agents.py,
\* routers/machines.py, utils/energy.py, utils/security.py, database.py).
\* Units: idle time in seconds; energy_wasted_kwh and energy_delta_kwh in
\* micro-kWh (round(.., 6) of a kWh value); energy_cost_usd in 1e-4 USD
\* (round(.., 4)).  A string the code inspects character by character is a
\* tuple of one-character strings.
\* ======================================================================

\* ---- fingerprints (RegisterRequest.validate_mac) -----------------------
LowerLetters == <<"a", "b", "c", "d", "e", "f", "g", "h", "i", "j", "k", "l", "m",
                  "n", "o", "p", "q", "r", "s", "t", "u", "v", "w", "x", "y", "z">>
UpperLetters == <<"A", "B", "C", "D", "E", "F", "G", "H", "I", "J", "K", "L", "M",
                  "N", "O", "P", "Q", "R", "S", "T", "U", "V", "W", "X", "Y", "Z">>
HexDigits == {"0", "1", "2", "3", "4", "5", "6", "7", "8", "9",
              "A", "B", "C", "D", "E", "F", "a", "b", "c", "d", "e", "f"}

\* str.upper() on one character
upper(c) ==
    IF \E i \in DOMAIN LowerLetters : LowerLetters[i] = c
    THEN UpperLetters[CHOOSE i \in DOMAIN LowerLetters : LowerLetters[i] = c]
    ELSE c

\* faulty variant: the letter case is kept
normalize_mac_keep_case(v) == [i \in DOMAIN v |-> IF v[i] = "-" THEN ":" ELSE v[i]]

\* v.upper().replace("-", ":")
normalize_mac(v) == [i \in DOMAIN v |-> IF upper(v[i]) = "-" THEN ":" ELSE upper(v[i])]

\* MAC_REGEX.match: six groups of two hex digits, joined by ':' or '-'
mac_regex_match(v) ==
    /\ Len(v) = MAC_LENGTH
    /\ \A i \in DOMAIN v : IF i % 3 = 0 THEN v[i] \in {":", "-"} ELSE v[i] \in HexDigits

\* the validated field: Field(min_length=17, max_length=17), then validate_mac
validate_mac(v) ==
    IF Len(v) = MAC_LENGTH /\ mac_regex_match(normalize_mac(v))
    THEN [ok |-> TRUE, value |-> normalize_mac(v)]
    ELSE [ok |-> FALSE, value |-> <<>>]

\* a 17-character fingerprint text: the group h1 h2 six times, joined by sep
Fingerprint(h1, h2, sep) ==
    [i \in 1..MAC_LENGTH |-> IF i % 3 = 0 THEN sep ELSE IF i % 3 = 1 THEN h1 ELSE h2]

\* the mac_address values of registration requests
RawMacs == {Fingerprint("a", "a", ":"), Fingerprint("A", "A", "-"),
            Fingerprint("A", "A", ":"), Fingerprint("b", "1", ":"),
            Fingerprint("g", "0", ":"),
            SubSeq(Fingerprint("A", "A", ":"), 1, MAC_LENGTH - 1)}

\* ---- energy (utils/energy.py) -------------------------------------------
\* round(idle_seconds / 3600.0 * (IDLE_POWER_WATTS / 1000.0), 6), in micro-kWh
calculate_energy_wasted(idle_seconds) ==
    RoundDiv(idle_seconds * IDLE_POWER_WATTS * 1000, 3600)

\* round(energy_kwh * ELECTRICITY_COST_PER_KWH, 4), in 1e-4 USD
calculate_cost(energy_kwh) ==
    RoundDiv(energy_kwh * ELECTRICITY_COST_CENTS_PER_KWH, 10000)

\* faulty variant: the comparison is strict
is_idle_strict(idle_seconds) == idle_seconds > IDLE_THRESHOLD_SECONDS

is_idle(idle_seconds) == idle_seconds >= IDLE_THRESHOLD_SECONDS

\* ---- agent tokens (utils/auth.py, utils/security.py) --------------------
\* the digest stored for a raw token
hash_agent_token(raw_token) == <<"sha256", raw_token>>

\* generate_agent_token(): a raw token never issued before
generate_agent_token(issued) == issued + 1

\* select(AgentToken).where(machine_id == mid, revoked == False)
active_tokens_of(tokens, mid) ==
    {k \in DOMAIN tokens : tokens[k].machine_id = mid /\ ~tokens[k].revoked}

\* select(AgentToken).where(token_hash == hash, revoked == False)
tokens_by_hash(tokens, raw_token) ==
    {k \in DOMAIN tokens : /\ tokens[k].token_hash = hash_agent_token(raw_token)
                           /\ ~tokens[k].revoked}

NewAgentToken(mid, raw_token) ==
    [machine_id |-> mid, token_hash |-> hash_agent_token(raw_token),
     last_used |-> {}, revoked |-> FALSE]

\* the UNIQUE constraint on agent_tokens.machine_id: would this INSERT violate it
token_insert_conflict(tokens, mid) == \E k \in DOMAIN tokens : tokens[k].machine_id = mid

\* ---- machines -----------------------------------------------------------
server_machine_by_mac(ms, mac) == {i \in DOMAIN ms : ms[i].mac_address = mac}

NewServerMachine(mac, t) ==
    [mac_address |-> mac, status |-> "online", last_seen |-> t,
     total_idle_seconds |-> 0, energy_wasted_kwh |-> 0, energy_cost_usd |-> 0]

\* submit_heartbeat: the Machine row afterwards
submit_heartbeat_machine(m, idle_seconds, t) ==
    LET energy_delta == calculate_energy_wasted(idle_seconds)
        cost_delta == calculate_cost(energy_delta)
    IN  [m EXCEPT !.last_seen = t,
                  !.status = IF is_idle(idle_seconds) THEN "idle" ELSE "online",
                  !.total_idle_seconds = @ + idle_seconds,
                  !.energy_wasted_kwh = @ + energy_delta,
                  !.energy_cost_usd = @ + cost_delta]

\* submit_heartbeat: the Heartbeat row it appends
submit_heartbeat_row(mid, idle_seconds, t) ==
    [machine_id |-> mid, timestamp |-> t, idle_seconds |-> idle_seconds,
     is_idle |-> is_idle(idle_seconds),
     energy_delta_kwh |-> calculate_energy_wasted(idle_seconds)]

\* routers/machines.py mark_offline_machines: the rows it selects
server_offline_candidates(ms, t) ==
    {i \in DOMAIN ms : /\ ms[i].status \in {"online", "idle"}
                       /\ ms[i].last_seen < t - OFFLINE_THRESHOLD_SECONDS}

server_mark_offline_machines(ms, t) ==
    [i \in DOMAIN ms |->
        IF i \in server_offline_candidates(ms, t) THEN [ms[i] EXCEPT !.status = "offline"]
        ELSE ms[i]]

\* ---- the handlers, each one transaction ---------------------------------
ServerResponse(op, code, mid, tokens, raw) ==
    [NoServerResp EXCEPT !.op = op, !.code = code, !.machine_id = mid,
                         !.token = tokens, !.raw = raw]

\* POST /api/agents/register, re-registration branch (the fingerprint is known)
ReRegister(mid, raw) ==
    LET raw_token == generate_agent_token(tokens_issued)
        active == active_tokens_of(agent_tokens, mid)
    IN  /\ tokens_issued' = raw_token
        /\ IF active = {} /\ token_insert_conflict(agent_tokens, mid)
           THEN \* IntegrityError at commit: the transaction is rolled back
                /\ server_resp' = ServerResponse("register", 500, mid, {}, raw)
                /\ UNCHANGED <<server_machines, agent_tokens>>
           ELSE /\ server_machines' = [server_machines EXCEPT ![mid].last_seen = now,
                                                              ![mid].status = "online"]
                /\ agent_tokens' =
                       IF active = {}
                       THEN Append(agent_tokens, NewAgentToken(mid, raw_token))
                       ELSE [agent_tokens EXCEPT ![TheOne(active)].token_hash =
                                                     hash_agent_token(raw_token)]
                /\ server_resp' = ServerResponse("register", 200, mid, {raw_token}, raw)

\* POST /api/agents/register, first registration
FirstRegister(mac, raw) ==
    LET raw_token == generate_agent_token(tokens_issued)
        mid == Len(server_machines) + 1
    IN  /\ tokens_issued' = raw_token
        /\ server_machines' = Append(server_machines, NewServerMachine(mac, now))
        /\ agent_tokens' = Append(agent_tokens, NewAgentToken(mid, raw_token))
        /\ server_resp' = ServerResponse("register", 200, mid, {raw_token}, raw)

\* POST /api/agents/register
ServerRegister(raw) ==
    /\ LET v == validate_mac(raw)
       IN  IF ~v.ok
           THEN /\ server_resp' = ServerResponse("register", 422, 0, {}, raw)
                /\ UNCHANGED <<server_machines, agent_tokens, tokens_issued>>
           ELSE /\ tokens_issued < MaxTokens
                /\ IF server_machine_by_mac(server_machines, v.value) # {}
                   THEN ReRegister(TheOne(server_machine_by_mac(server_machines, v.value)), raw)
                   ELSE FirstRegister(v.value, raw)
    /\ resp' = NoResp
    /\ UNCHANGED <<proc_vars, auth_vars, heartbeats, now, machines, commands, energy_metrics, audit_logs,
                   agent, issue_tx>>

\* POST /api/agents/heartbeat with a bearer token (get_current_machine, then
\* submit_heartbeat)
ServerHeartbeat(raw_token, idle_seconds) ==
    /\ Len(heartbeats) < MaxHeartbeats
    /\ LET found == tokens_by_hash(agent_tokens, raw_token)
       IN  IF found = {}
           THEN /\ server_resp' = [ServerResponse("heartbeat", 401, 0, {raw_token}, <<>>)
                                       EXCEPT !.idle_seconds = idle_seconds]
                /\ UNCHANGED <<server_machines, heartbeats, agent_tokens>>
           ELSE LET k == TheOne(found)
                    mid == agent_tokens[k].machine_id
                IN  /\ agent_tokens' = [agent_tokens EXCEPT ![k].last_used = {now}]
                    /\ server_machines' =
                           [server_machines EXCEPT
                               ![mid] = submit_heartbeat_machine(@, idle_seconds, now)]
                    /\ heartbeats' =
                           Append(heartbeats, submit_heartbeat_row(mid, idle_seconds, now))
                    /\ server_resp' =
                           [ServerResponse("heartbeat", 200, mid, {raw_token}, <<>>)
                               EXCEPT !.idle_seconds = idle_seconds,
                                      !.machine_status = server_machines'[mid].status,
                                      !.energy_wasted_kwh =
                                          server_machines'[mid].energy_wasted_kwh]
    /\ resp' = NoResp
    /\ UNCHANGED <<proc_vars, auth_vars, tokens_issued, now, machines, commands, energy_metrics, audit_logs,
                   agent, issue_tx>>

\* POST /api/machines/{machine_id}/revoke-token by an admin
ServerRevokeToken(mid) ==
    /\ agent_tokens' = [k \in DOMAIN agent_tokens |->
                           IF k \in active_tokens_of(agent_tokens, mid)
                           THEN [agent_tokens[k] EXCEPT !.revoked = TRUE]
                           ELSE agent_tokens[k]]
    /\ server_resp' = ServerResponse("revoke", 204, mid, {}, <<>>)
    /\ resp' = NoResp
    /\ UNCHANGED <<proc_vars, auth_vars, server_machines, heartbeats, tokens_issued, now, machines, commands,
                   energy_metrics, audit_logs, agent, issue_tx>>

\* GET /api/machines: the listing first marks the silent machines offline
ServerListMachines ==
    /\ server_machines' = server_mark_offline_machines(server_machines, now)
    /\ server_resp' = ServerResponse("list", 200, 0, {}, <<>>)
    /\ resp' = NoResp
    /\ UNCHANGED <<proc_vars, auth_vars, heartbeats, agent_tokens, tokens_issued, now, machines, commands,
                   energy_metrics, audit_logs, agent, issue_tx>>

\* ---- specification SpecServer: src/server under any sequence of requests -
NextServer ==
    \/ Tick
    \/ \E raw \in RawMacs : ServerRegister(raw)
    \/ \E t \in RawTokens, s \in IdleSeconds : ServerHeartbeat(t, s)
    \/ \E mid \in ServerMachineIds : ServerRevokeToken(mid)
    \/ ServerListMachines

SpecServer == Init /\ [][NextServer]_vars

\* ======================================================================
\* Operators and sessions of src/server (routers/auth.py, utils/security.py,
\* database.py).  Usernames and role values are tuples of one-character
\* strings; a password is a string, its hash the pair <<"argon2id", password>>;
\* a raw refresh token is its serial number, its digest <<"sha256", raw>>.
\* ======================================================================

\* ---- strings -----------------------------------------------------------
\* str.lower() on one character
lower(c) ==
    IF \E i \in DOMAIN UpperLetters : UpperLetters[i] = c
    THEN LowerLetters[CHOOSE i \in DOMAIN UpperLetters : UpperLetters[i] = c]
    ELSE c

\* str.lower()
lower_str(v) == [i \in DOMAIN v |-> lower(v[i])]

\* str.strip(): leading, then trailing blanks
RECURSIVE lstrip(_)
lstrip(v) == IF v # <<>> /\ Head(v) = " " THEN lstrip(Tail(v)) ELSE v

RECURSIVE rstrip(_)
rstrip(v) == IF v # <<>> /\ v[Len(v)] = " " THEN rstrip(SubSeq(v, 1, Len(v) - 1)) ELSE v

strip(v) == rstrip(lstrip(v))

\* LoginRequest.sanitize_username
sanitize_username(v) == lower_str(strip(v))

\* ---- roles (database.UserRole, routers.auth._coerce_role) --------------
UserRoleMembers == {"ADMIN", "VIEWER"}

\* the value of a member: what is stored in users.role
member_value(m) ==
    IF m = "ADMIN" THEN <<"a", "d", "m", "i", "n">>
    ELSE <<"v", "i", "e", "w", "e", "r">>

\* faulty variant: the value is compared as given
_missing_exact(value) ==
    IF value.kind = "str"
    THEN {m \in UserRoleMembers : member_value(m) = value.v}
    ELSE {}

\* UserRole._missing_: {} is None
_missing_(value) ==
    IF value.kind = "str"
    THEN {m \in UserRoleMembers : member_value(m) = lower_str(value.v)}
    ELSE {}

\* UserRole(value): a member is returned as it is, a value is looked up, and what
\* is not found goes to _missing_; {} is ValueError
UserRole(value) ==
    IF value.kind = "member" THEN {value.v}
    ELSE IF value.kind = "str" /\ \E m \in UserRoleMembers : member_value(m) = value.v
         THEN {m \in UserRoleMembers : member_value(m) = value.v}
         ELSE _missing_(value)

\* _coerce_role(value); {} is ValueError
_coerce_role(value) ==
    IF value.kind = "member" THEN {value.v}
    ELSE IF value.kind = "str" THEN UserRole(value)
    ELSE {}

\* ---- credentials (utils/auth.py) ---------------------------------------
hash_password(password) == <<"argon2id", password>>

verify_password(password, password_hash) == password_hash = hash_password(password)

\* the Argon2id parameters do not change while the service runs
needs_rehash(password_hash) == FALSE

hash_refresh_token(raw) == <<"sha256", raw>>

\* (raw, digest, expiry) of a fresh refresh token
create_refresh_token(issued, t) ==
    [raw |-> issued + 1, hash |-> hash_refresh_token(issued + 1),
     expires |-> t + REFRESH_TOKEN_EXPIRE_DAYS * 86400]

\* the claims of a signed access token
create_access_token(user_id, role, t) ==
    [sub |-> user_id, role |-> role, exp |-> t + ACCESS_TOKEN_EXPIRE_MINUTES * 60]

\* ---- rows --------------------------------------------------------------
user_by_username(us, username) == {i \in DOMAIN us : us[i].username = username}

\* select(User).where(User.id == user_id, User.is_active == True)
active_user(us, user_id) == {i \in DOMAIN us : i = user_id /\ us[i].is_active}

NewUser(username, password, role) ==
    [username |-> username, password_hash |-> hash_password(password),
     role |-> member_value(role), is_active |-> TRUE, failed_login_attempts |-> 0,
     locked_until |-> {}, last_login |-> {}]

NewRefreshToken(user_id, token) ==
    [user_id |-> user_id, token_hash |-> token.hash, expires_at |-> token.expires,
     revoked |-> FALSE, revoked_at |-> {}]

\* ---- login --------------------------------------------------------------
\* faulty variant: the lockout is not looked at
is_locked_never(user, t) == FALSE

\* user.locked_until and user.locked_until > now
is_locked(user, t) == user.locked_until # {} /\ TheOne(user.locked_until) > t

\* the row after a wrong password
login_failed(user, t) ==
    LET n == user.failed_login_attempts + 1
    IN  IF n >= ACCOUNT_LOCKOUT_THRESHOLD
        THEN [user EXCEPT !.failed_login_attempts = 0,
                          !.locked_until = {t + ACCOUNT_LOCKOUT_MINUTES * 60}]
        ELSE [user EXCEPT !.failed_login_attempts = n]

\* the row after the right password
login_succeeded(user, password, t) ==
    [user EXCEPT !.failed_login_attempts = 0, !.locked_until = {}, !.last_login = {t},
                 !.password_hash = IF needs_rehash(@) THEN hash_password(password) ELSE @]

AuthResponse(op, code, username, password, raw, caller) ==
    [NoAuthResp EXCEPT !.op = op, !.code = code, !.username = username,
                       !.password = password, !.raw = raw, !.caller = caller]

\* what the parts of the model outside the auth router keep
other_vars == <<proc_vars, server_vars, machines, commands, energy_metrics, audit_logs, agent, resp,
                issue_tx>>

\* faulty variant: an unknown username gets an answer of its own
reject_unknown_not_found == [code |-> 404, error |-> "user_not_found"]

\* the HTTPException for an unknown or inactive user
reject_unknown == [code |-> 401, error |-> "invalid_credentials"]

\* the HTTPException for a locked account
reject_locked == [code |-> 429, error |-> "account_locked"]

\* the HTTPException for a wrong password
reject_wrong_password == [code |-> 401, error |-> "invalid_credentials"]

\* status code and error of the answer of login to (username, password), the
\* username as validated by LoginRequest
login_answer(us, username, password, t) ==
    LET found == user_by_username(us, username)
    IN  IF found = {} \/ ~us[TheOne(found)].is_active THEN reject_unknown
        ELSE IF is_locked(us[TheOne(found)], t) THEN reject_locked
        ELSE IF ~verify_password(password, us[TheOne(found)].password_hash)
             THEN reject_wrong_password
        ELSE [code |-> 200, error |-> ""]

\* POST /api/auth/login
Login(raw_username, password) ==
    LET username == sanitize_username(raw_username)
        found == user_by_username(users, username)
        reply == login_answer(users, username, password, now)
        answer == [AuthResponse("login", reply.code, username, password, 0, 0)
                      EXCEPT !.error = reply.error]
    IN  /\ IF found = {} \/ ~users[TheOne(found)].is_active
           THEN /\ auth_resp' = answer
                /\ UNCHANGED <<users, refresh_tokens, refresh_issued>>
           ELSE LET uid == TheOne(found)
                    user == users[uid]
                IN  IF is_locked(user, now)
                    THEN /\ auth_resp' = answer
                         /\ UNCHANGED <<users, refresh_tokens, refresh_issued>>
                    ELSE IF ~verify_password(password, user.password_hash)
                    THEN /\ users' = [users EXCEPT ![uid] = login_failed(user, now)]
                         /\ auth_resp' = answer
                         /\ UNCHANGED <<refresh_tokens, refresh_issued>>
                    ELSE LET token == create_refresh_token(refresh_issued, now)
                             role == TheOne(_coerce_role([kind |-> "str", v |-> user.role]))
                         IN  /\ refresh_issued < MaxRefreshTokens
                             /\ users' = [users EXCEPT
                                             ![uid] = login_succeeded(user, password, now)]
                             /\ refresh_tokens' =
                                    Append(refresh_tokens, NewRefreshToken(uid, token))
                             /\ refresh_issued' = token.raw
                             /\ auth_resp' =
                                    [answer EXCEPT
                                        !.access_token =
                                            {create_access_token(uid, member_value(role), now)},
                                        !.refresh_token = {token.raw}]
        /\ UNCHANGED <<now, boot, advisory_lock, boot_log, role_call, backend_users,
                       backend_auth_resp, other_vars>>

\* ---- refresh and logout -------------------------------------------------
\* select(RefreshToken).where(token_hash == .., revoked == False)
unrevoked_by_hash(rts, raw) ==
    {k \in DOMAIN rts : rts[k].token_hash = hash_refresh_token(raw) /\ ~rts[k].revoked}

\* faulty variant: an expired token is taken as valid
refresh_expired_never(row, t) == FALSE

\* db_token.expires_at < now
refresh_expired(row, t) == row.expires_at < t

revoke(row, t) == [row EXCEPT !.revoked = TRUE, !.revoked_at = {t}]

\* the status code refresh_token answers with
refresh_code(us, rts, raw, t) ==
    LET found == unrevoked_by_hash(rts, raw)
    IN  IF found = {} THEN 401
        ELSE IF refresh_expired(rts[TheOne(found)], t) THEN 401
        ELSE IF active_user(us, rts[TheOne(found)].user_id) = {} THEN 401
        ELSE 200

\* the table after refresh_token: an expired or a redeemed row is revoked
refresh_rows(us, rts, raw, t) ==
    LET found == unrevoked_by_hash(rts, raw)
    IN  IF found = {} THEN rts
        ELSE IF refresh_expired(rts[TheOne(found)], t)
             THEN [rts EXCEPT ![TheOne(found)] = revoke(@, t)]
        ELSE IF active_user(us, rts[TheOne(found)].user_id) = {} THEN rts
        ELSE [rts EXCEPT ![TheOne(found)] = revoke(@, t)]

\* POST /api/auth/refresh
Refresh(raw) ==
    LET code == refresh_code(users, refresh_tokens, raw, now)
        found == unrevoked_by_hash(refresh_tokens, raw)
    IN  /\ refresh_tokens' = refresh_rows(users, refresh_tokens, raw, now)
        /\ auth_resp' =
               IF code = 200
               THEN LET uid == refresh_tokens[TheOne(found)].user_id
                        role == TheOne(_coerce_role([kind |-> "str", v |-> users[uid].role]))
                    IN  [AuthResponse("refresh", 200, <<>>, "", raw, 0) EXCEPT
                            !.access_token =
                                {create_access_token(uid, member_value(role), now)}]
               ELSE AuthResponse("refresh", code, <<>>, "", raw, 0)
        /\ UNCHANGED <<users, refresh_issued, now, boot, advisory_lock, boot_log, role_call,
                       backend_users, backend_auth_resp, other_vars>>

\* faulty variant: the owner of the token is not compared
logout_rows_any_owner(rts, raw, user_id) ==
    {k \in DOMAIN rts : rts[k].token_hash = hash_refresh_token(raw)}

\* select(RefreshToken).where(token_hash == .., user_id == current_user.id)
logout_rows(rts, raw, user_id) ==
    {k \in DOMAIN rts : rts[k].token_hash = hash_refresh_token(raw)
                           /\ rts[k].user_id = user_id}

\* POST /api/auth/logout by the bearer of an access token of operator caller
\* (get_current_user answers 401 when that operator is missing or inactive)
Logout(caller, raw) ==
    /\ IF active_user(users, caller) = {}
       THEN /\ auth_resp' = AuthResponse("logout", 401, <<>>, "", raw, caller)
            /\ UNCHANGED refresh_tokens
       ELSE /\ refresh_tokens' =
                   [k \in DOMAIN refresh_tokens |->
                       IF k \in logout_rows(refresh_tokens, raw, caller)
                       THEN revoke(refresh_tokens[k], now)
                       ELSE refresh_tokens[k]]
            /\ auth_resp' = AuthResponse("logout", 204, <<>>, "", raw, caller)
    /\ UNCHANGED <<users, refresh_issued, now, boot, advisory_lock, boot_log, role_call,
                   backend_users, backend_auth_resp, other_vars>>

\* an operator is disabled in the store (users.is_active; the service has no
\* endpoint for it)
DeactivateOperator(uid) ==
    /\ uid \in DOMAIN users
    /\ users[uid].is_active
    /\ users' = [users EXCEPT ![uid].is_active = FALSE]
    /\ auth_resp' = NoAuthResp
    /\ UNCHANGED <<refresh_tokens, refresh_issued, now, boot, advisory_lock, boot_log,
                   role_call, backend_users, backend_auth_resp, other_vars>>

\* ---- inputs of the auth router -----------------------------------------
AdminName == <<"a", "d", "m", "i", "n">>
ViewerName == <<"o", "p", "s">>
\* usernames of login requests: one to be sanitized, and an unknown one
LoginUsernames == {<<" ", "A", "d", "m", "i", "n", " ">>, <<"n", "o", "n", "e">>}
Passwords == {"admin123", "wrong"}
\* raw refresh tokens of requests; one never issued is an unknown token
RawRefreshTokens == 1..MaxRefreshTokens
\* the operator an access token names; one is not in the table
Callers == 1..3

\* the service after startup: the bootstrapped admin and a viewer provisioned
\* in the store
Operators == <<NewUser(AdminName, "admin123", "ADMIN"),
               NewUser(ViewerName, "admin123", "VIEWER")>>

InitServing == InitStore /\ users = Operators

\* wall-clock time passes (steps of half a lockout window)
LoginTick ==
    /\ now + LoginTickSeconds <= MaxLoginTime
    /\ now' = now + LoginTickSeconds
    /\ auth_resp' = NoAuthResp
    /\ UNCHANGED <<users, refresh_tokens, refresh_issued, boot, advisory_lock, boot_log,
                   role_call, backend_users, backend_auth_resp, other_vars>>

\* ---- specification SpecLogin: logins over time --------------------------
NextLogin ==
    \/ LoginTick
    \/ \E u \in LoginUsernames, p \in Passwords : Login(u, p)

SpecLogin == InitServing /\ [][NextLogin]_vars

\* wall-clock time passes (steps of half the life of a refresh token)
SessionTick ==
    /\ now + SessionTickSeconds <= MaxSessionTime
    /\ now' = now + SessionTickSeconds
    /\ auth_resp' = NoAuthResp
    /\ UNCHANGED <<users, refresh_tokens, refresh_issued, boot, advisory_lock, boot_log,
                   role_call, backend_users, backend_auth_resp, other_vars>>

\* ---- specification SpecSession: refresh tokens over their life ----------
NextSession ==
    \/ SessionTick
    \/ \E u \in {AdminName, ViewerName} : Login(u, "admin123")
    \/ \E raw \in RawRefreshTokens : Refresh(raw)
    \/ \E c \in Callers, raw \in RawRefreshTokens : Logout(c, raw)
    \/ \E uid \in DOMAIN users : DeactivateOperator(uid)

SpecSession == InitServing /\ [][NextSession]_vars

\* ======================================================================
\* The backend's /auth (app/api/v1/endpoints/auth.py, users.py,
\* app/services/auth_service.py, app/core/security.py).  A JWT is the record of
\* its claims with a flag for a valid signature.
\* ======================================================================

\* core.security.hash_password and verify_password (passlib, bcrypt)
pwd_context_hash(password) == <<"bcrypt", password>>

pwd_context_verify(plain, hashed) == hashed = pwd_context_hash(plain)

\* _create_token: the claims, signed, expiring expires_delta seconds from now
_create_token(sub, type, expires_delta, t) ==
    [sub |-> sub, type |-> type, exp |-> t + expires_delta, signed |-> TRUE]

\* jwt.decode: {} (None) for a bad signature or an expired token
decode_token(token, t) == IF token.signed /\ token.exp >= t THEN {token} ELSE {}

\* AuthService.create_tokens
AuthService_create_tokens(user_id, t) ==
    [access_token |->
         _create_token(user_id, "access", JWT_ACCESS_TOKEN_EXPIRE_MINUTES * 60, t),
     refresh_token |->
         _create_token(user_id, "refresh", JWT_REFRESH_TOKEN_EXPIRE_DAYS * 86400, t)]

\* AuthService.authenticate: the active user with this email and password, or {}
AuthService_authenticate(us, email, password) ==
    {i \in DOMAIN us : /\ us[i].email = email
                       /\ us[i].is_active
                       /\ pwd_context_verify(password, us[i].hashed_password)}

\* AuthService.refresh_tokens: {} is None
AuthService_refresh_tokens(us, token, t) ==
    IF decode_token(token, t) = {} \/ token.type # "refresh" THEN {}
    ELSE IF token.sub \notin DOMAIN us \/ ~us[token.sub].is_active THEN {}
    ELSE {AuthService_create_tokens(token.sub, t)}

BackendAuthResponse(op, code, presented, tokens) ==
    [op |-> op, code |-> code, presented |-> presented, tokens |-> tokens]

\* what the backend's /auth keeps of the rest of the model
backend_other_vars ==
    <<users, refresh_tokens, refresh_issued, auth_resp, boot, advisory_lock, boot_log,
      role_call, other_vars>>

\* POST /auth/register
BackendRegister(email, password) ==
    /\ IF \E i \in DOMAIN backend_users : backend_users[i].email = email
       THEN /\ backend_auth_resp' = BackendAuthResponse("register", 400, {}, {})
            /\ UNCHANGED backend_users
       ELSE /\ backend_users' =
                   Append(backend_users,
                          [email |-> email, hashed_password |-> pwd_context_hash(password),
                           role |-> IF backend_users = <<>> THEN "admin" ELSE "viewer",
                           is_active |-> TRUE, last_login |-> {}])
            /\ backend_auth_resp' = BackendAuthResponse("register", 201, {}, {})
    /\ UNCHANGED <<now, backend_other_vars>>

\* POST /auth/login
BackendLogin(email, password) ==
    LET found == AuthService_authenticate(backend_users, email, password)
    IN  /\ IF found = {}
           THEN /\ backend_auth_resp' = BackendAuthResponse("login", 401, {}, {})
                /\ UNCHANGED backend_users
           ELSE /\ backend_users' = [backend_users EXCEPT ![TheOne(found)].last_login = {now}]
                /\ backend_auth_resp' =
                       BackendAuthResponse("login", 200, {},
                                           {AuthService_create_tokens(TheOne(found), now)})
        /\ UNCHANGED <<now, backend_other_vars>>

\* POST /auth/refresh
BackendRefresh(token) ==
    LET tokens == AuthService_refresh_tokens(backend_users, token, now)
    IN  /\ backend_auth_resp' =
               BackendAuthResponse("refresh", IF tokens = {} THEN 401 ELSE 200,
                                   {token}, tokens)
        /\ UNCHANGED <<now, backend_users, backend_other_vars>>

\* DELETE /users/{user_id} by an admin: the account is deactivated
BackendDeleteUser(uid) ==
    /\ IF uid \in DOMAIN backend_users
       THEN /\ backend_users' = [backend_users EXCEPT ![uid].is_active = FALSE]
            /\ backend_auth_resp' = BackendAuthResponse("delete_user", 204, {}, {})
       ELSE /\ backend_auth_resp' = BackendAuthResponse("delete_user", 404, {}, {})
            /\ UNCHANGED backend_users
    /\ UNCHANGED <<now, backend_other_vars>>

\* ---- inputs of the backend's /auth --------------------------------------
Emails == {"ops@green", "dev@green"}
BackendPasswords == {"password1", "wrong"}
BackendUserIds == 1..2
\* a token that was not signed by the backend
ForgedToken == [sub |-> 1, type |-> "refresh", exp |-> 0, signed |-> FALSE]
\* the tokens a client can present: those of the last answer, and a forged one
held_tokens ==
    {ForgedToken} \cup UNION {{p.access_token, p.refresh_token} :
                                 p \in backend_auth_resp.tokens}

\* ---- specification SpecBackendAuth: the backend's sessions over time ----
NextBackendAuth ==
    \/ SessionTick
    \/ \E e \in Emails : BackendRegister(e, "password1")
    \/ \E e \in Emails, p \in BackendPasswords : BackendLogin(e, p)
    \/ \E token \in held_tokens : BackendRefresh(token)
    \/ \E uid \in BackendUserIds : BackendDeleteUser(uid)

SpecBackendAuth == Init /\ [][NextBackendAuth]_vars

\* ======================================================================
\* Admin bootstrap of src/server (routers/auth.py ensure_admin_exists, called
\* by the lifespan of every worker process).  Each await of the function is one
\* step of the worker; the session's commit, rollback and add calls of the
\* current call are counted.
\* ======================================================================

\* INITIAL_ADMIN_USERNAME as configured
ConfiguredUsername == <<" ", "A", "d", "m", "i", "n">>
\* INITIAL_ADMIN_PASSWORD as configured at the time of a call: unset, or set
ConfiguredPasswords == {"", "changed-pw"}
\* the statement of a call that fails with a DBAPIError; none when the store works
Faults == {"none", "enum", "lock", "select", "commit"}

\* settings.INITIAL_ADMIN_USERNAME.strip().lower()
admin_username == lower_str(strip(ConfiguredUsername))

\* settings.INITIAL_ADMIN_PASSWORD or "admin123"
admin_password(password) == IF password = "" THEN "admin123" ELSE password

log_event(log, event) == [log EXCEPT ![event] = @ + 1]

\* faulty variant: the lock is granted while another transaction holds it
lock_free_always(holder) == TRUE

\* pg_advisory_xact_lock returns once no other transaction holds the lock
lock_free(holder) == holder = {}

\* faulty variant: the configured password is written to the existing row
existing_admin_reset(us, uid, password) ==
    [us EXCEPT ![uid].password_hash = hash_password(password)]

\* the users table after the branch for an existing admin: nothing is written
existing_admin(us, uid, password) == us

\* faulty variant: the branch returns without a commit
on_admin_exists_no_commit(b) ==
    [b EXCEPT !.pc = "done", !.outcome = "returned", !.event = "admin_already_exists"]

\* the call after the branch for an existing admin: log, commit, return
on_admin_exists(b) ==
    [b EXCEPT !.pc = "done", !.outcome = "returned", !.event = "admin_already_exists",
              !.commits = @ + 1]

\* faulty variant: the duplicate-key error is passed on to the caller
on_integrity_error_raised(b) ==
    [b EXCEPT !.pc = "done", !.rollbacks = @ + 1, !.outcome = "raised",
              !.event = "admin_creation_skipped"]

\* except IntegrityError: rollback, log, return
on_integrity_error(b) ==
    [b EXCEPT !.pc = "done", !.rollbacks = @ + 1, !.outcome = "returned",
              !.event = "admin_creation_skipped"]

\* except DBAPIError: rollback, log, raise
on_dbapi_error(b) ==
    [b EXCEPT !.pc = "done", !.rollbacks = @ + 1, !.outcome = "raised",
              !.event = "ensure_admin_exists_db_error"]

\* the handler of the enum check: log, rollback, raise -- into except DBAPIError
on_enum_check_failed(b) == on_dbapi_error([b EXCEPT !.rollbacks = @ + 1])

\* what the bootstrap keeps of the rest of the model
boot_other_vars ==
    <<now, refresh_tokens, refresh_issued, auth_resp, role_call, backend_users,
      backend_auth_resp, other_vars>>

\* lifespan step 4: a worker opens a session and calls ensure_admin_exists
BootBegin(w, password, fault) ==
    /\ boot[w].pc \in {"idle", "done"}
    /\ boot[w].runs < MaxBootRuns
    /\ boot' = [boot EXCEPT ![w] = [BootIdle EXCEPT !.pc = "enum", !.password = password,
                                                    !.fault = fault,
                                                    !.runs = boot[w].runs + 1]]
    /\ UNCHANGED <<users, advisory_lock, boot_log, boot_other_vars>>

\* step 0: SELECT 'admin'::user_role
BootEnumCheck(w) ==
    /\ boot[w].pc = "enum"
    /\ IF boot[w].fault = "enum"
       THEN /\ boot' = [boot EXCEPT ![w] = on_enum_check_failed(@)]
            /\ boot_log' = log_event(log_event(boot_log, "startup_enum_check_failed"),
                                     "ensure_admin_exists_db_error")
       ELSE /\ boot' = [boot EXCEPT ![w].pc = "lock"]
            /\ UNCHANGED boot_log
    /\ UNCHANGED <<users, advisory_lock, boot_other_vars>>

\* step 1: SELECT pg_advisory_xact_lock(_ADMIN_INIT_LOCK_KEY)
BootLock(w) ==
    /\ boot[w].pc = "lock"
    /\ IF boot[w].fault = "lock"
       THEN /\ boot' = [boot EXCEPT ![w] = on_dbapi_error(@)]
            /\ boot_log' = log_event(boot_log, "ensure_admin_exists_db_error")
            /\ UNCHANGED advisory_lock
       ELSE /\ lock_free(advisory_lock)
            /\ advisory_lock' = advisory_lock \cup {w}
            /\ boot' = [boot EXCEPT ![w].pc = "select"]
            /\ UNCHANGED boot_log
    /\ UNCHANGED <<users, boot_other_vars>>

\* step 2: select the admin row; if it exists: log, commit, return; else db.add
BootSelect(w) ==
    /\ boot[w].pc = "select"
    /\ LET existing == user_by_username(users, admin_username)
       IN  IF boot[w].fault = "select"
           THEN /\ boot' = [boot EXCEPT ![w] = on_dbapi_error(@)]
                /\ boot_log' = log_event(boot_log, "ensure_admin_exists_db_error")
                /\ advisory_lock' = advisory_lock \ {w}
                /\ UNCHANGED users
           ELSE IF existing # {}
           THEN /\ boot' = [boot EXCEPT ![w] = on_admin_exists(@)]
                /\ users' = existing_admin(users, TheOne(existing),
                                           admin_password(boot[w].password))
                /\ boot_log' = log_event(boot_log, "admin_already_exists")
                /\ advisory_lock' = advisory_lock \ {w}
           ELSE /\ boot' = [boot EXCEPT ![w].pc = "commit", ![w].adds = @ + 1]
                /\ UNCHANGED <<users, boot_log, advisory_lock>>
    /\ UNCHANGED boot_other_vars

\* step 4: db.commit() of the added row, and the handlers of what it raises
BootCommit(w) ==
    /\ boot[w].pc = "commit"
    /\ LET b == [boot[w] EXCEPT !.commits = @ + 1]
       IN  IF user_by_username(users, admin_username) # {}
           THEN \* users.username is UNIQUE: IntegrityError
                /\ boot' = [boot EXCEPT ![w] = on_integrity_error(b)]
                /\ boot_log' = log_event(boot_log, "admin_creation_skipped")
                /\ UNCHANGED users
           ELSE IF boot[w].fault = "commit"
           THEN /\ boot' = [boot EXCEPT ![w] = on_dbapi_error(b)]
                /\ boot_log' = log_event(boot_log, "ensure_admin_exists_db_error")
                /\ UNCHANGED users
           ELSE /\ users' = Append(users, NewUser(admin_username,
                                                  admin_password(boot[w].password),
                                                  "ADMIN"))
                /\ boot' = [boot EXCEPT ![w] = [b EXCEPT !.pc = "done",
                                                         !.outcome = "returned",
                                                         !.event = "admin_user_created"]]
                /\ boot_log' = log_event(boot_log, "admin_user_created")
    /\ advisory_lock' = advisory_lock \ {w}
    /\ UNCHANGED boot_other_vars

\* the admin row is inserted in the store by someone else (direct manipulation)
ExternalInsert ==
    /\ user_by_username(users, admin_username) = {}
    /\ users' = Append(users, NewUser(admin_username, "external", "ADMIN"))
    /\ UNCHANGED <<boot, advisory_lock, boot_log, boot_other_vars>>

\* ---- specification SpecBootstrap: bootstrap calls, failures included ----
NextBootstrap ==
    \/ \E w \in Workers, p \in ConfiguredPasswords, f \in Faults : BootBegin(w, p, f)
    \/ \E w \in Workers : BootEnumCheck(w)
    \/ \E w \in Workers : BootLock(w)
    \/ \E w \in Workers : BootSelect(w)
    \/ \E w \in Workers : BootCommit(w)
    \/ ExternalInsert

SpecBootstrap == Init /\ [][NextBootstrap]_vars

\* ---- specification SpecBootConc: the workers start on a working store ---
NextBootConc ==
    \/ \E w \in Workers, p \in ConfiguredPasswords : BootBegin(w, p, "none")
    \/ \E w \in Workers : BootEnumCheck(w)
    \/ \E w \in Workers : BootLock(w)
    \/ \E w \in Workers : BootSelect(w)
    \/ \E w \in Workers : BootCommit(w)

SpecBootConc == Init /\ [][NextBootConc]_vars

\* ---- specification SpecRole: role values are normalized -----------------
\* every spelling of v in upper and lower case letters
CaseVariants(v) ==
    {[i \in DOMAIN v |-> IF i \in S THEN upper(v[i]) ELSE v[i]] : S \in SUBSET DOMAIN v}

\* the values passed to UserRole(..) and _coerce_role(..): strings (the role
\* values in every letter case, others, the empty string), integers, members
RoleValues ==
    {[kind |-> "str", v |-> t] :
        t \in CaseVariants(member_value("ADMIN")) \cup CaseVariants(member_value("VIEWER"))
              \cup {<<>>, <<" ", "a", "d", "m", "i", "n">>, <<"a", "d", "m", "i", "n", "s">>,
                    <<"s", "u", "p", "e", "r", "u", "s", "e", "r">>,
                    <<"m", "a", "n", "a", "g", "e", "r">>, <<"r", "o", "o", "t">>}}
    \cup {[kind |-> "int", v |-> n] : n \in {0, 1, 42}}
    \cup {[kind |-> "member", v |-> m] : m \in UserRoleMembers}

\* one call of UserRole(value) and of _coerce_role(value)
CoerceRole(value) ==
    /\ role_call' = [value |-> value, user_role |-> UserRole(value),
                     coerced |-> _coerce_role(value)]
    /\ UNCHANGED <<now, users, refresh_tokens, refresh_issued, auth_resp, boot,
                   advisory_lock, boot_log, backend_users, backend_auth_resp, other_vars>>

NextRole == \E value \in RoleValues : CoerceRole(value)

SpecRole == Init /\ [][NextRole]_vars

\* ======================================================================
\* The agent of src/agent/agent.py: heartbeat loop and offline queue
\* ======================================================================

\* ---- files -------------------------------------------------------------
\* open(path, "w"): the file exists and is empty until something is written
open_w(file) == [state |-> "truncated", body |-> <<>>]

\* json.dump(content, f) and the close at the end of the with block
json_dump(file, content) == [state |-> "complete", body |-> content]

\* OfflineQueue._save, as one step
_save(queue) == json_dump(open_w(NoFile), queue)

\* the keys of the config that save_config persists and the model follows
to_save(a) == [agent_token |-> a.agent_token, machine_id |-> a.machine_id]

\* save_config, as one step
save_config(a) == json_dump(open_w(NoFile), to_save(a))

\* OfflineQueue._load: the list in the file, [] when it is missing or not JSON
_load(file) == IF file.state = "complete" THEN file.body ELSE <<>>

\* load_config: the defaults, updated from the file when it holds JSON
load_config(file) ==
    IF file.state = "complete" THEN file.body ELSE [agent_token |-> {}, machine_id |-> {}]

\* ---- OfflineQueue --------------------------------------------------------
\* faulty variant: nothing is dropped from a full queue
push_unbounded(queue, heartbeat) == Append(queue, heartbeat)

\* OfflineQueue.push: the list after push (the oldest entry goes when it is full)
push(queue, heartbeat) ==
    Append(IF Len(queue) >= offline_queue_max THEN Tail(queue) ELSE queue, heartbeat)

\* for p in failed: self.offline_queue.push(p)
RECURSIVE push_all(_, _)
push_all(queue, failed) ==
    IF failed = <<>> THEN queue ELSE push_all(push(queue, Head(failed)), Tail(failed))

\* the entries of queued whose POST raised, in order (i \in fails: the i-th raised)
RECURSIVE failed_of(_, _, _)
failed_of(queued, fails, i) ==
    IF i > Len(queued) THEN <<>>
    ELSE (IF i \in fails THEN <<queued[i]>> ELSE <<>>) \o failed_of(queued, fails, i + 1)

\* auth_token = token or self.token in GreenOpsHTTPClient._request
auth_token(token, client_token) == IF token # {} THEN token ELSE client_token

\* ---- inputs of the agent -----------------------------------------------
\* how POST /api/agents/register ends: a token, a 400, or no connection in
\* all five attempts
RegisterOutcomes == {"ok", "400", "unreachable"}
\* how POST /api/agents/heartbeat ends: 200, 401, another HTTP error, no connection
HeartbeatOutcomes == {"ok", "401", "500", "unreachable"}

\* ---- register ------------------------------------------------------------
\* GreenOpsAgent.register: the agent afterwards (pc is set by the caller)
register(a, outcome) ==
    IF a.agent_token # {} /\ a.machine_id # {} THEN a
    ELSE IF outcome = "ok"
         THEN [a EXCEPT !.agent_token = {a.regs + 1}, !.machine_id = {a.regs + 1},
                        !.client_token = {a.regs + 1}, !.regs = a.regs + 1]
    ELSE a

\* what register returns
registered(a, outcome) == (a.agent_token # {} /\ a.machine_id # {}) \/ outcome = "ok"

\* the request of register, none when the agent is registered already
register_post(a, outcome) ==
    IF a.agent_token # {} /\ a.machine_id # {} THEN NoPost
    ELSE [op |-> "register", path |-> "/api/agents/register", outcome |-> outcome,
          token |-> a.client_token, payloads |-> <<>>]

\* the config file after register: written on success only
register_disk(a, outcome) ==
    IF ~(a.agent_token # {} /\ a.machine_id # {}) /\ outcome = "ok"
    THEN [disk EXCEPT !.config = save_config(register(a, outcome))]
    ELSE disk

\* run: the first register(); sys.exit(1) when it fails
AgentStart(outcome) ==
    /\ qagent.pc = "start"
    /\ qagent.saving = {}
    /\ qagent.regs < MaxRegistrations
    /\ qagent' = [register(qagent, outcome) EXCEPT
                     !.pc = IF registered(qagent, outcome) THEN "top" ELSE "exited"]
    /\ disk' = register_disk(qagent, outcome)
    /\ last_post' = register_post(qagent, outcome)
    /\ UNCHANGED <<now, machines, commands, energy_metrics, audit_logs, agent, resp,
                   issue_tx, server_vars, auth_vars, run_vars>>

\* ---- one iteration of the loop of run ----------------------------------
\* if self.offline_queue.size() > 0: self.flush_offline_queue()
\* (fails: the positions of the queued heartbeats whose POST raised)
FlushOfflineQueue(fails) ==
    /\ qagent.pc = "top"
    /\ qagent.saving = {}
    /\ qagent.queue # <<>>
    /\ fails \subseteq DOMAIN qagent.queue
    /\ LET queued == qagent.queue
           failed == failed_of(queued, fails, 1)
       IN  /\ qagent' = [qagent EXCEPT !.queue = push_all(<<>>, failed), !.pc = "check"]
           /\ disk' = [disk EXCEPT !.queue = _save(push_all(<<>>, failed))]
           /\ last_post' = [op |-> "flush", path |-> "/api/agents/heartbeat",
                            outcome |-> IF fails = {} THEN "ok" ELSE "failed",
                            token |-> auth_token(qagent.agent_token, qagent.client_token),
                            payloads |-> queued]
    /\ UNCHANGED <<now, machines, commands, energy_metrics, audit_logs, agent, resp,
                   issue_tx, server_vars, auth_vars, run_vars>>

\* the queue is empty: nothing to flush
SkipFlush ==
    /\ qagent.pc = "top"
    /\ qagent.saving = {}
    /\ qagent.queue = <<>>
    /\ qagent' = [qagent EXCEPT !.pc = "check"]
    /\ last_post' = NoPost
    /\ UNCHANGED <<disk, now, machines, commands, energy_metrics, audit_logs, agent, resp,
                   issue_tx, server_vars, auth_vars, run_vars>>

\* if not self.config.get("agent_token"): register(), and on failure
\* time.sleep(60); continue
RegisterAgain(outcome) ==
    /\ qagent.pc = "check"
    /\ qagent.agent_token = {}
    /\ qagent.regs < MaxRegistrations
    /\ qagent' = [register(qagent, outcome) EXCEPT
                     !.pc = IF registered(qagent, outcome) THEN "beat" ELSE "top"]
    /\ disk' = register_disk(qagent, outcome)
    /\ last_post' = register_post(qagent, outcome)
    /\ UNCHANGED <<now, machines, commands, energy_metrics, audit_logs, agent, resp,
                   issue_tx, server_vars, auth_vars, run_vars>>

\* GreenOpsAgent.send_heartbeat: the agent afterwards
send_heartbeat(a, payload, outcome) ==
    IF a.agent_token = {} THEN a
    ELSE IF outcome = "401" THEN [a EXCEPT !.agent_token = {}, !.machine_id = {}]
    ELSE IF outcome = "unreachable" THEN [a EXCEPT !.queue = push(a.queue, payload)]
    ELSE a

\* self.send_heartbeat(idle_seconds, cpu, memory), then the sleep of the loop
SendHeartbeat(outcome) ==
    /\ qagent.pc = "beat" \/ (qagent.pc = "check" /\ qagent.agent_token # {})
    /\ qagent.beats < MaxBeats
    /\ LET payload == qagent.beats + 1
           after == send_heartbeat(qagent, payload, outcome)
       IN  /\ qagent' = [after EXCEPT !.beats = payload, !.pc = "top"]
           /\ disk' = IF qagent.agent_token = {} THEN disk
                      ELSE IF outcome = "401"
                           THEN [disk EXCEPT !.config = save_config(after)]
                      ELSE IF outcome = "unreachable"
                           THEN [disk EXCEPT !.queue = _save(after.queue)]
                      ELSE disk
           /\ last_post' = IF qagent.agent_token = {} THEN NoPost
                           ELSE [op |-> "send_heartbeat", path |-> "/api/agents/heartbeat",
                                 outcome |-> outcome,
                                 token |-> auth_token(qagent.agent_token,
                                                      qagent.client_token),
                                 payloads |-> <<payload>>]
    /\ UNCHANGED <<now, machines, commands, energy_metrics, audit_logs, agent, resp,
                   issue_tx, server_vars, auth_vars, run_vars>>

\* ---- specification SpecOffline: the loop of the agent --------------------
NextOffline ==
    \/ \E o \in RegisterOutcomes : AgentStart(o)
    \/ \E fails \in SUBSET (1..offline_queue_max) : FlushOfflineQueue(fails)
    \/ SkipFlush
    \/ \E o \in RegisterOutcomes : RegisterAgain(o)
    \/ \E o \in HeartbeatOutcomes : SendHeartbeat(o)

SpecOffline == Init /\ [][NextOffline]_vars

\* ---- saving, step by step ----------------------------------------------
\* OfflineQueue.push up to the open() of _save: the list is changed and the
\* file is opened for writing
PushOpen ==
    /\ qagent.pc = "top"
    /\ qagent.saving = {}
    /\ qagent.beats < MaxBeats
    /\ qagent' = [qagent EXCEPT !.queue = push(@, qagent.beats + 1),
                                !.beats = @ + 1, !.saving = {"queue"}]
    /\ disk' = [disk EXCEPT !.queue = open_w(@)]
    /\ last_post' = NoPost
    /\ UNCHANGED <<now, machines, commands, energy_metrics, audit_logs, agent, resp,
                   issue_tx, server_vars, auth_vars, run_vars>>

\* OfflineQueue.flush up to the open() of _save
FlushOpen ==
    /\ qagent.pc = "top"
    /\ qagent.saving = {}
    /\ qagent.queue # <<>>
    /\ qagent' = [qagent EXCEPT !.queue = <<>>, !.saving = {"queue"}]
    /\ disk' = [disk EXCEPT !.queue = open_w(@)]
    /\ last_post' = NoPost
    /\ UNCHANGED <<now, machines, commands, energy_metrics, audit_logs, agent, resp,
                   issue_tx, server_vars, auth_vars, run_vars>>

\* the 401 branch of send_heartbeat up to the open() of save_config
ClearTokenOpen ==
    /\ qagent.pc = "top"
    /\ qagent.saving = {}
    /\ qagent.agent_token # {}
    /\ qagent' = [qagent EXCEPT !.agent_token = {}, !.machine_id = {},
                                !.saving = {"config"}]
    /\ disk' = [disk EXCEPT !.config = open_w(@)]
    /\ last_post' = NoPost
    /\ UNCHANGED <<now, machines, commands, energy_metrics, audit_logs, agent, resp,
                   issue_tx, server_vars, auth_vars, run_vars>>

\* json.dump and the end of the with block, of _save or of save_config
SaveDump ==
    /\ qagent.saving # {}
    /\ disk' = IF qagent.saving = {"queue"}
               THEN [disk EXCEPT !.queue = json_dump(@, qagent.queue)]
               ELSE [disk EXCEPT !.config = json_dump(@, to_save(qagent))]
    /\ qagent' = [qagent EXCEPT !.saving = {}]
    /\ last_post' = NoPost
    /\ UNCHANGED <<now, machines, commands, energy_metrics, audit_logs, agent, resp,
                   issue_tx, server_vars, auth_vars, run_vars>>

\* the process is killed and the service starts it again: GreenOpsAgent()
\* reads both files
Interrupt ==
    /\ qagent.pc # "exited"
    /\ qagent' = [qagent EXCEPT !.pc = "start", !.saving = {}, !.client_token = {},
                                !.agent_token = load_config(disk.config).agent_token,
                                !.machine_id = load_config(disk.config).machine_id,
                                !.queue = _load(disk.queue)]
    /\ last_post' = NoPost
    /\ UNCHANGED <<disk, now, machines, commands, energy_metrics, audit_logs, agent, resp,
                   issue_tx, server_vars, auth_vars, run_vars>>

\* ---- specification SpecSave: the agent's files under interruption --------
NextSave ==
    \/ AgentStart("ok")
    \/ PushOpen
    \/ FlushOpen
    \/ ClearTokenOpen
    \/ SaveDump
    \/ Interrupt

SpecSave == Init /\ [][NextSave]_vars

\* ======================================================================
\* Startup of src/server: lifespan
\* ======================================================================

\* ---- inputs of the startup ----------------------------------------------
Environments == {"production", "development"}
\* JWT_SECRET_KEY: unset, shorter than 32 characters, 32 characters
JwtSecretKeys == {"", "too-short-secret", "0123456789abcdef0123456789abcdef"}
\* INITIAL_ADMIN_PASSWORD: unset, shorter than 8 characters, long enough
InitialAdminPasswords == {"", "short", "changed-pw"}
SettingsValues ==
    [ENV : Environments, JWT_SECRET_KEY : JwtSecretKeys,
     INITIAL_ADMIN_PASSWORD : InitialAdminPasswords]

\* the process that runs lifespan
Master == "w1"

\* Settings.validate: the names of the settings that are missing or invalid
\* (a missing JWT_SECRET_KEY is generated outside production)
validate(settings) ==
    (IF settings.JWT_SECRET_KEY = ""
     THEN (IF settings.ENV # "production" THEN {} ELSE {"JWT_SECRET_KEY"})
     ELSE IF Len(settings.JWT_SECRET_KEY) < 32 THEN {"JWT_SECRET_KEY"} ELSE {})
    \cup
    (IF settings.INITIAL_ADMIN_PASSWORD = "" THEN {"INITIAL_ADMIN_PASSWORD"}
     ELSE IF Len(settings.INITIAL_ADMIN_PASSWORD) < 8 THEN {"INITIAL_ADMIN_PASSWORD"}
     ELSE {})

\* sys.exit(1)
sys_exit(s) == [s EXCEPT !.pc = "exited", !.exit_code = {1}]

\* a step of lifespan is through: on to the next one
step_done(s, step, next) == [s EXCEPT !.pc = next, !.done = Append(@, step)]

\* lifespan step 1: settings.validate(), sys.exit(1) when something is missing
LifespanValidate(settings) ==
    /\ startup.pc = "config"
    /\ startup' = IF validate(settings) # {}
                  THEN sys_exit([startup EXCEPT !.settings = {settings}])
                  ELSE step_done([startup EXCEPT !.settings = {settings}],
                                 "config", "connect")
    /\ UNCHANGED <<sessions, offline_vars, now, machines, commands, energy_metrics,
                   audit_logs, agent, resp, issue_tx, server_vars, auth_vars>>

\* faulty variant: the loop never gives up
exhausted_never(attempt) == FALSE

\* if attempt >= max_attempts: return False
exhausted(attempt) == attempt >= max_attempts

\* _wait_for_database: one pass of the loop (connected: SELECT 1 went through),
\* and lifespan step 2 when the function returns
WaitForDatabase(connected) ==
    /\ startup.pc = "connect"
    /\ LET attempt == startup.attempts + 1
           s == [startup EXCEPT !.attempts = attempt]
       IN  startup' = IF connected
                      THEN step_done([s EXCEPT !.db_ready = {TRUE}], "connect", "schema")
                      ELSE IF exhausted(attempt)
                           THEN sys_exit([s EXCEPT !.db_ready = {FALSE}])
                      ELSE s
    /\ UNCHANGED <<sessions, offline_vars, now, machines, commands, energy_metrics,
                   audit_logs, agent, resp, issue_tx, server_vars, auth_vars>>

\* lifespan step 3: create_tables(), sys.exit(1) when it raises
CreateTables(raised) ==
    /\ startup.pc = "schema"
    /\ startup' = IF raised THEN sys_exit([startup EXCEPT !.schema_ready = {FALSE}])
                  ELSE step_done([startup EXCEPT !.schema_ready = {TRUE}],
                                 "schema", "bootstrap")
    /\ UNCHANGED <<sessions, offline_vars, now, machines, commands, energy_metrics,
                   audit_logs, agent, resp, issue_tx, server_vars, auth_vars>>

\* lifespan step 4: the call of ensure_admin_exists with the validated settings
LifespanBootstrap(fault) ==
    /\ startup.pc = "bootstrap"
    /\ boot[Master].pc = "idle"
    /\ BootBegin(Master, TheOne(startup.settings).INITIAL_ADMIN_PASSWORD, fault)

\* faulty variant: the service starts whatever the bootstrap did
after_bootstrap_serving(s, outcome) == step_done(s, "bootstrap", "serving")

\* the try around ensure_admin_exists: on to yield, or sys.exit(1) when it raised
after_bootstrap(s, outcome) ==
    IF outcome = "returned" THEN step_done(s, "bootstrap", "serving") ELSE sys_exit(s)

\* lifespan step 4: ensure_admin_exists has returned or raised
LifespanBootstrapDone ==
    /\ startup.pc = "bootstrap"
    /\ boot[Master].pc = "done"
    /\ startup' = after_bootstrap(startup, boot[Master].outcome)
    /\ UNCHANGED <<sessions, offline_vars, now, machines, commands, energy_metrics,
                   audit_logs, agent, resp, issue_tx, server_vars, auth_vars>>

\* after the yield of lifespan the application serves requests
Serve(raw_username, password) ==
    /\ startup.pc = "serving"
    /\ Login(raw_username, password)

\* ---- specification SpecStartup: one start of the service -----------------
NextStartup ==
    \/ \E settings \in SettingsValues : LifespanValidate(settings)
    \/ \E connected \in BOOLEAN : WaitForDatabase(connected)
    \/ \E raised \in BOOLEAN : CreateTables(raised)
    \/ \E f \in Faults : LifespanBootstrap(f)
    \/ BootEnumCheck(Master)
    \/ BootLock(Master)
    \/ BootSelect(Master)
    \/ BootCommit(Master)
    \/ ExternalInsert
    \/ LifespanBootstrapDone
    \/ \E u \in LoginUsernames, p \in InitialAdminPasswords \ {""} : Serve(u, p)

SpecStartup == Init /\ [][NextStartup]_vars

\* ======================================================================
\* Requests handled at the same time: one database session per request,
\* rows loaded into the session first and written back at commit
\* ======================================================================

\* the UPDATE a session emits at commit for a row it loaded: the columns whose
\* value the handler changed are set to the handler's values, the others keep
\* what the table holds by then (READ COMMITTED, no row lock, no version column)
flush(row, loaded, changed) ==
    [c \in DOMAIN row |-> IF changed[c] # loaded[c] THEN changed[c] ELSE row[c]]

\* the session of worker w is over; what the worker counted stays
close(w) ==
    [sessions EXCEPT ![w] = [NoSession EXCEPT !.wrong_done = sessions[w].wrong_done,
                                              !.granted = sessions[w].granted]]

\* what the handlers of this section keep of the rest of the model
conc_other_vars == <<startup, offline_vars, agent, issue_tx, server_vars>>

\* ---- backend: heartbeat and reaper --------------------------------------
\* get_machine_from_api_key: the request's session loads the Machine row
HeartbeatLoad(w, mid, idle_minutes) ==
    /\ sessions[w].pc = "idle"
    /\ mid \in DOMAIN machines
    /\ sessions' = [sessions EXCEPT ![w] = [@ EXCEPT !.pc = "loaded", !.op = "heartbeat",
                                                     !.id = mid, !.input = idle_minutes,
                                                     !.loaded = {machines[mid]}]]
    /\ UNCHANGED <<now, machines, commands, energy_metrics, audit_logs, resp, auth_vars,
                   conc_other_vars>>

\* MachineService.process_heartbeat on the loaded row, its commit, and the rest
\* of the handler
HeartbeatCommit(w) ==
    /\ sessions[w].pc = "loaded"
    /\ sessions[w].op = "heartbeat"
    /\ Len(energy_metrics) < MaxMetrics
    /\ LET mid == sessions[w].id
           loaded == TheOne(sessions[w].loaded)
       IN  /\ machines' = [machines EXCEPT
                              ![mid] = flush(@, loaded,
                                             process_heartbeat(loaded, sessions[w].input,
                                                               now))]
           /\ energy_metrics' =
                  Append(energy_metrics, heartbeat_metric(mid, sessions[w].input))
           /\ commands' = expire_stale(commands, mid, now)
           /\ resp' = pending_response("heartbeat", mid, live_of(commands', mid, now))
    /\ sessions' = close(w)
    /\ UNCHANGED <<now, audit_logs, auth_vars, conc_other_vars>>

\* MachineService.mark_offline_machines up to the end of its select
ReaperSelect(w) ==
    /\ sessions[w].pc = "idle"
    /\ sessions' = [sessions EXCEPT ![w] = [@ EXCEPT !.pc = "loaded", !.op = "reaper",
                                                     !.selected =
                                                         offline_candidates(machines, now)]]
    /\ UNCHANGED <<now, machines, commands, energy_metrics, audit_logs, resp, auth_vars,
                   conc_other_vars>>

\* for m in machines: m.status = "offline", and the commit
ReaperCommit(w) ==
    /\ sessions[w].pc = "loaded"
    /\ sessions[w].op = "reaper"
    /\ machines' = [i \in DOMAIN machines |->
                       IF i \in sessions[w].selected
                       THEN [machines[i] EXCEPT !.status = "offline"]
                       ELSE machines[i]]
    /\ resp' = [NoResp EXCEPT !.op = "mark_offline",
                              !.count = Cardinality(sessions[w].selected)]
    /\ sessions' = close(w)
    /\ UNCHANGED <<now, commands, energy_metrics, audit_logs, auth_vars, conc_other_vars>>

\* the first registration of a host, before its agent sends heartbeats
EnrolMachine(mac) ==
    /\ machine_by_mac(machines, mac) = {}
    /\ RegisterAgent(mac)

\* wall-clock time passes while requests are in flight
ConcTick ==
    /\ now + TickSeconds <= MaxTime
    /\ now' = now + TickSeconds
    /\ UNCHANGED <<sessions, machines, commands, energy_metrics, audit_logs, resp,
                   auth_vars, conc_other_vars>>

\* ---- specification SpecMachineConc: heartbeats and reaper passes at once --
NextMachineConc ==
    \/ ConcTick
    \/ \E mac \in ServiceHosts : EnrolMachine(mac)
    \/ \E w \in Workers, mid \in MachineIds, i \in IdleValues : HeartbeatLoad(w, mid, i)
    \/ \E w \in Workers : HeartbeatCommit(w)
    \/ \E w \in Workers : ReaperSelect(w)
    \/ \E w \in Workers : ReaperCommit(w)

SpecMachineConc == Init /\ [][NextMachineConc]_vars

\* ---- src/server: refresh ------------------------------------------------
\* refresh_token up to the second select: the token row is loaded, it is not
\* expired and its operator is active
RefreshLoad(w, raw) ==
    /\ sessions[w].pc = "idle"
    /\ refresh_code(users, refresh_tokens, raw, now) = 200
    /\ sessions' = [sessions EXCEPT
                       ![w] = [@ EXCEPT !.pc = "loaded", !.op = "refresh", !.input = raw,
                                        !.id = TheOne(unrevoked_by_hash(refresh_tokens, raw)),
                                        !.loaded = {refresh_tokens[
                                            TheOne(unrevoked_by_hash(refresh_tokens, raw))]}]]
    /\ UNCHANGED <<now, machines, commands, energy_metrics, audit_logs, resp, auth_vars,
                   conc_other_vars>>

\* refresh_token answers 401 right after a select
RefreshRefused(w, raw) ==
    /\ sessions[w].pc = "idle"
    /\ refresh_code(users, refresh_tokens, raw, now) # 200
    /\ Refresh(raw)

\* refresh_token from "db_token.revoked = True" on: the commit and the answer
RefreshCommit(w) ==
    /\ sessions[w].pc = "loaded"
    /\ sessions[w].op = "refresh"
    /\ LET k == sessions[w].id
           loaded == TheOne(sessions[w].loaded)
           uid == loaded.user_id
           role == TheOne(_coerce_role([kind |-> "str", v |-> users[uid].role]))
       IN  /\ refresh_tokens' = [refresh_tokens EXCEPT
                                    ![k] = flush(@, loaded, revoke(loaded, now))]
           /\ auth_resp' = [AuthResponse("refresh", 200, <<>>, "", sessions[w].input, 0)
                               EXCEPT !.access_token =
                                          {create_access_token(uid, member_value(role), now)}]
    /\ sessions' = [close(w) EXCEPT ![w].granted = Append(@, sessions[w].input)]
    /\ UNCHANGED <<now, users, refresh_issued, boot, advisory_lock, boot_log, role_call,
                   backend_users, backend_auth_resp, machines, commands, energy_metrics,
                   audit_logs, resp, conc_other_vars>>

\* ---- specification SpecRefreshConc: refresh requests at once -------------
NextRefreshConc ==
    \/ \E u \in {AdminName, ViewerName} : Login(u, "admin123")
    \/ \E w \in Workers, raw \in RawRefreshTokens : RefreshLoad(w, raw)
    \/ \E w \in Workers, raw \in RawRefreshTokens : RefreshRefused(w, raw)
    \/ \E w \in Workers : RefreshCommit(w)

SpecRefreshConc == InitServing /\ [][NextRefreshConc]_vars

\* ---- src/server: login ---------------------------------------------------
\* the wrong-password logins answered so far
wrong_logins == sessions["w1"].wrong_done + sessions["w2"].wrong_done

\* login up to the password check: the operator's row is loaded, the operator
\* is active and not locked
LoginLoad(w, raw_username, password) ==
    /\ sessions[w].pc = "idle"
    /\ wrong_logins < MaxWrongLogins
    /\ LET found == user_by_username(users, sanitize_username(raw_username))
       IN  /\ found # {}
           /\ users[TheOne(found)].is_active
           /\ ~is_locked(users[TheOne(found)], now)
           /\ sessions' = [sessions EXCEPT
                              ![w] = [@ EXCEPT !.pc = "loaded", !.op = "login",
                                               !.id = TheOne(found), !.input = password,
                                               !.loaded = {users[TheOne(found)]}]]
    /\ UNCHANGED <<now, machines, commands, energy_metrics, audit_logs, resp, auth_vars,
                   conc_other_vars>>

\* login answers 401 or 429 right after the select
LoginRefused(w, raw_username, password) ==
    /\ sessions[w].pc = "idle"
    /\ LET found == user_by_username(users, sanitize_username(raw_username))
       IN  \/ found = {}
           \/ ~users[TheOne(found)].is_active
           \/ is_locked(users[TheOne(found)], now)
    /\ Login(raw_username, password)

\* login from the password check on: the commit and the answer
LoginCommit(w) ==
    /\ sessions[w].pc = "loaded"
    /\ sessions[w].op = "login"
    /\ LET uid == sessions[w].id
           loaded == TheOne(sessions[w].loaded)
           password == sessions[w].input
           answer == AuthResponse("login", 401, loaded.username, password, 0, 0)
       IN  IF ~verify_password(password, loaded.password_hash)
           THEN /\ users' = [users EXCEPT
                                ![uid] = flush(@, loaded, login_failed(loaded, now))]
                /\ auth_resp' = [answer EXCEPT !.error = reject_wrong_password.error]
                /\ sessions' = [close(w) EXCEPT ![w].wrong_done = @ + 1]
                /\ UNCHANGED <<refresh_tokens, refresh_issued>>
           ELSE LET token == create_refresh_token(refresh_issued, now)
                    role == TheOne(_coerce_role([kind |-> "str", v |-> loaded.role]))
                IN  /\ refresh_issued < MaxRefreshTokens
                    /\ users' = [users EXCEPT
                                    ![uid] = flush(@, loaded,
                                                   login_succeeded(loaded, password, now))]
                    /\ refresh_tokens' =
                           Append(refresh_tokens, NewRefreshToken(uid, token))
                    /\ refresh_issued' = token.raw
                    /\ auth_resp' =
                           [answer EXCEPT
                               !.code = 200,
                               !.access_token =
                                   {create_access_token(uid, member_value(role), now)},
                               !.refresh_token = {token.raw}]
                    /\ sessions' = close(w)
    /\ UNCHANGED <<now, boot, advisory_lock, boot_log, role_call, backend_users,
                   backend_auth_resp, machines, commands, energy_metrics, audit_logs, resp,
                   conc_other_vars>>

\* ---- specification SpecLoginConc: wrong-password logins at once ----------
NextLoginConc ==
    \/ \E w \in Workers : LoginLoad(w, AdminName, "wrong")
    \/ \E w \in Workers : LoginRefused(w, AdminName, "wrong")
    \/ \E w \in Workers : LoginCommit(w)

SpecLoginConc == InitServing /\ [][NextLoginConc]_vars

\* ======================================================================
\* Properties of the command dispatcher (specification Spec)
\* ======================================================================

\* the request a "result" response answers
RespCid == TheOne(resp'.command_id)
RespMid == resp'.machine_id
ResultStep == resp'.op = "result"
\* the command named exists and belongs to the reporting machine (before the step)
ResultOwned == RespCid \in DOMAIN commands /\ commands[RespCid].machine_id = RespMid

\* C1: in every reachable state each machine has at most one ShutdownCommand
\* whose status is pending.
C1_SinglePending ==
    \A mid \in MachineIds :
        Cardinality({c \in DOMAIN commands :
                        commands[c].machine_id = mid /\ commands[c].status = "pending"}) <= 1

\* a machine with an executed command and a later pending one (issue, result,
\* heartbeat and issue have all acted)
C1_Witness ==
    \E c1, c2 \in DOMAIN commands :
        /\ c1 < c2
        /\ commands[c1].machine_id = commands[c2].machine_id
        /\ commands[c1].status = "executed"
        /\ commands[c2].status = "pending"

\* C2: also when two issue-shutdown requests for the same idle machine run
\* concurrently, the machine has at most one pending command once both have
\* committed (specification SpecConc).
C2_SinglePendingConcurrent ==
    (\A w \in Workers : issue_tx[w].pc = "idle") =>
        \A mid \in MachineIds :
            Cardinality({c \in DOMAIN commands :
                            commands[c].machine_id = mid /\ commands[c].status = "pending"}) <= 1

\* C3: an issue for machine m that follows an earlier issue for m with no result
\* reported on the earlier command (it is pending or expired) leaves the new
\* command pending, as the only pending one of m, and the earlier one expired.
C3_IssueTwice ==
    [][Len(commands') = Len(commands) + 1 =>
        LET new == Len(commands')
            mid == commands'[new].machine_id
        IN  /\ commands'[new].status = "pending"
            /\ \A c \in DOMAIN commands :
                  (commands[c].machine_id = mid /\ commands[c].status \in {"pending", "expired"})
                      => commands'[c].status = "expired"
            /\ \A c \in DOMAIN commands' :
                  (commands'[c].machine_id = mid /\ commands'[c].status = "pending") => c = new
      ]_vars

\* two commands of one machine issued at the same instant: the first expired
\* (not overdue, so by the second issue), the second pending
C3_Witness ==
    \E c1, c2 \in DOMAIN commands :
        /\ c1 < c2
        /\ commands[c1].machine_id = commands[c2].machine_id
        /\ commands[c1].status = "expired"
        /\ commands[c1].expires_at >= now
        /\ commands[c2].status = "pending"
        /\ resp.op = "issue"

\* C4 (specification SpecAgent), the states of _handle_command after measuring:
\* the threshold compared is the command's; measured idle below it means the
\* report sent is executed=false with a reason and the agent is on its way back
\* to the loop; the agent is on its way to perform_shutdown only with measured
\* idle >= threshold, having reported executed=true.
C4_Measured ==
    \A mac \in Macs :
        agent[mac].pc \in {"return", "sleep"} =>
            LET a == agent[mac]
            IN  /\ a.threshold = commands[TheOne(a.command_id)].idle_threshold_minutes
                /\ a.current_idle < a.threshold =>
                       /\ a.pc = "return"
                       /\ \E r \in a.reported : ~r.executed /\ r.reason # {}
                /\ a.pc = "sleep" =>
                       /\ a.current_idle >= a.threshold
                       /\ a.reported = {[executed |-> TRUE, reason |-> {}]}

\* C4, the OS shutdown: the host goes down only from _handle_command's last
\* line, reached with measured idle >= threshold.
C4_ShutdownStep ==
    \A mac \in Macs :
        (agent[mac].pc \in {"handle", "return", "sleep"} /\ agent'[mac].pc = "off") =>
            /\ agent[mac].pc = "sleep"
            /\ agent[mac].current_idle >= agent[mac].threshold

\* C4: two-sided idle guarantee on the agent: measured idle below the command's
\* threshold is reported executed=false with a reason and never shuts the host
\* down; the OS shutdown is invoked only where measured idle >= threshold.
C4_IdleGuarantee == []C4_Measured /\ [][C4_ShutdownStep]_vars

\* the agent measured idle below the threshold of a command issued for a machine
\* the backend holds idle, and its report has made the command rejected
C4_Witness ==
    \E mac \in Macs :
        /\ agent[mac].pc = "return"
        /\ agent[mac].current_idle < agent[mac].threshold
        /\ commands[TheOne(agent[mac].command_id)].status = "rejected"
        /\ machines[TheOne(agent[mac].machine_id)].status = "idle"

\* C5, first half: a poll finding a pending command of its machine overdue answers
\* "no command" and leaves that row expired.
C5_PollAnswer ==
    [][resp'.op = "poll" =>
        \A c \in DOMAIN commands :
            (/\ commands[c].machine_id = RespMid
             /\ commands[c].status = "pending"
             /\ commands[c].expires_at < now)
                => (resp'.code = 200 /\ resp'.command_id = {} /\ commands'[c].status = "expired")
      ]_vars

\* C5, second half: the row the poll left expired is expired from then on; here
\* for the step that follows the poll's answer.
C5_Thereafter ==
    [][(resp.op = "poll" /\ resp.command_id = {}) =>
        \A c \in DOMAIN commands :
            (/\ commands[c].machine_id = resp.machine_id
             /\ commands[c].status = "expired"
             /\ commands[c].expires_at < now)
                => commands'[c].status = "expired"
      ]_vars

\* C5: a pending command whose expires_at is in the past is never returned by
\* poll: the poll answers "no command" and the row is expired from that poll onward.
C5_ExpiredOnPoll == C5_PollAnswer /\ C5_Thereafter

\* C6: issue-shutdown is accepted (201) only when the target machine's status is
\* idle; for any other status or an unknown machine it answers 400 with a reason
\* and changes no command, no machine and no audit row.
C6_IssueOnlyIdle ==
    [][resp'.op = "issue" =>
        IF RespMid \in DOMAIN machines /\ machines[RespMid].status = "idle"
        THEN resp'.code = 201
        ELSE /\ resp'.code = 400
             /\ resp'.detail # ""
             /\ commands' = commands
             /\ machines' = machines
             /\ audit_logs' = audit_logs
      ]_vars

\* an issue refused for an offline machine that still has a pending command
C6_Witness ==
    /\ resp.op = "issue"
    /\ resp.code = 400
    /\ resp.machine_id \in DOMAIN machines
    /\ machines[resp.machine_id].status = "offline"
    /\ \E c \in DOMAIN commands :
          commands[c].machine_id = resp.machine_id /\ commands[c].status = "pending"

\* C7: a result with executed=true for a command of the reporting machine sets the
\* command's status to executed, its executed_at to now, and the machine's status
\* to shutdown.
C7_ExecutedResult ==
    [][(ResultStep /\ resp'.executed /\ ResultOwned) =>
        /\ resp'.code = 200
        /\ commands'[RespCid].status = "executed"
        /\ commands'[RespCid].executed_at = {now}
        /\ machines'[RespMid].status = "shutdown"
      ]_vars

\* an executed result has been recorded for a machine with idle time accounted
C7_Witness ==
    /\ resp.op = "result" /\ resp.executed /\ resp.code = 200
    /\ machines[resp.machine_id].status = "shutdown"
    /\ machines[resp.machine_id].total_idle_minutes > 0
    /\ \E c \in resp.command_id : commands[c].status = "executed"

\* C8: a result with executed=false sets the command's status to rejected with the
\* given reason and leaves every machine row (status and totals) unchanged.
C8_RejectedResult ==
    [][(ResultStep /\ ~resp'.executed /\ ResultOwned) =>
        /\ resp'.code = 200
        /\ commands'[RespCid].status = "rejected"
        /\ commands'[RespCid].rejection_reason = resp'.reason
        /\ machines' = machines
      ]_vars

\* a rejected result with a reason has been recorded for an idle machine
C8_Witness ==
    /\ resp.op = "result" /\ ~resp.executed /\ resp.code = 200
    /\ machines[resp.machine_id].status = "idle"
    /\ machines[resp.machine_id].total_energy_kwh > 0
    /\ \E c \in resp.command_id :
          commands[c].status = "rejected" /\ commands[c].rejection_reason # {}

\* C9: a result whose command_id does not exist, or names a command of another
\* machine than the reporter, is answered 400 and changes no command and no machine.
C9_ForeignResult ==
    [][(ResultStep /\ ~ResultOwned) =>
        /\ resp'.code = 400
        /\ commands' = commands
        /\ machines' = machines
      ]_vars

\* a result refused because the (pending) command belongs to another machine
C9_Witness ==
    /\ resp.op = "result" /\ resp.code = 400
    /\ \E c \in resp.command_id :
          /\ c \in DOMAIN commands
          /\ commands[c].machine_id # resp.machine_id
          /\ commands[c].status = "pending"

\* C10: after Result(cmd, executed=true), a second Result(cmd, executed=true) is a
\* no-op: no stored field of the command (executed_at included) or of the machine
\* changes.
C10_RepeatedResult ==
    [][(/\ ResultStep /\ resp'.executed /\ ResultOwned
        /\ commands[RespCid].status = "executed"
        /\ machines[RespMid].status = "shutdown") =>
        /\ commands' = commands
        /\ machines' = machines
      ]_vars

\* ======================================================================
\* Telemetry (heartbeats): the backend's process_heartbeat under every body
\* its schema accepts, and the service under src/server
\* ======================================================================

\* the idle_minutes of heartbeat bodies the backend accepts:
\* HeartbeatRequest.idle_minutes is an int without a lower bound
IdleMinutes == {-1, 0, 1, 15}

\* ---- specification SpecTelemetry: registrations and heartbeats ----------
NextTelemetry ==
    \/ Tick
    \/ \E mac \in Macs : RegisterAgent(mac)
    \/ \E mid \in MachineIds, i \in IdleMinutes : Heartbeat(mid, i)

SpecTelemetry == Init /\ [][NextTelemetry]_vars

\* the backend answered a heartbeat of an authenticated machine
HeartbeatStep == resp'.op = "heartbeat" /\ resp'.code = 200

\* C11: across a successful heartbeat none of the machine's cumulative totals
\* (idle time, energy, cost, CO2) decreases, whatever body the endpoint accepted
C11_TotalsMonotone ==
    [][HeartbeatStep =>
        \A mid \in DOMAIN machines :
            /\ machines'[mid].total_idle_minutes >= machines[mid].total_idle_minutes
            /\ machines'[mid].total_energy_kwh >= machines[mid].total_energy_kwh
            /\ machines'[mid].total_cost_usd >= machines[mid].total_cost_usd
            /\ machines'[mid].total_co2_kg >= machines[mid].total_co2_kg]_vars

\* the service under src/server answered a heartbeat of an authenticated machine
ServerHeartbeatStep == server_resp'.op = "heartbeat" /\ server_resp'.code = 200

\* C12: every history row has an energy delta >= 0, and the delta is > 0
\* exactly when the reported idle time is at or above the idle threshold
C12_DeltaIffIdle ==
    \A k \in DOMAIN heartbeats :
        /\ heartbeats[k].energy_delta_kwh >= 0
        /\ (heartbeats[k].energy_delta_kwh > 0) <=>
               (heartbeats[k].idle_seconds >= IDLE_THRESHOLD_SECONDS)

\* one heartbeat interval's worth of idle energy, in micro-kWh:
\* interval_seconds x idle_power_watts / 3,600,000 kWh
C13_IntervalEnergy == RoundDiv(HEARTBEAT_INTERVAL * IDLE_POWER_WATTS * 1000, 3600)

\* C13: the delta one heartbeat credits is at most one heartbeat interval's
\* worth of idle energy, however large the reported idle time is
C13_BoundedDelta ==
    \A k \in DOMAIN heartbeats : heartbeats[k].energy_delta_kwh <= C13_IntervalEnergy

\* C14: after a successful heartbeat the machine is idle iff the reported idle
\* time is >= the idle threshold, and online otherwise; idle time equal to the
\* threshold gives idle, idle time 0 gives online with a zero energy delta
C14_StatusByThreshold ==
    [][ServerHeartbeatStep =>
        LET mid == server_resp'.machine_id
            idle_seconds == server_resp'.idle_seconds
            row == heartbeats'[Len(heartbeats')]
        IN  /\ (server_machines'[mid].status = "idle") <=>
                   (idle_seconds >= IDLE_THRESHOLD_SECONDS)
            /\ idle_seconds < IDLE_THRESHOLD_SECONDS =>
                   server_machines'[mid].status = "online"
            /\ server_resp'.machine_status = server_machines'[mid].status
            /\ idle_seconds = 0 => /\ row.machine_id = mid
                                   /\ row.energy_delta_kwh = 0
                                   /\ server_machines'[mid].energy_wasted_kwh =
                                          server_machines[mid].energy_wasted_kwh]_vars

\* a heartbeat reporting exactly the threshold has left its machine idle, and
\* one reporting 0 has been recorded as well
C14_Witness ==
    /\ server_resp.op = "heartbeat" /\ server_resp.code = 200
    /\ server_resp.idle_seconds = IDLE_THRESHOLD_SECONDS
    /\ server_machines[server_resp.machine_id].status = "idle"
    /\ \E k \in DOMAIN heartbeats : heartbeats[k].idle_seconds = 0

\* ======================================================================
\* Machine.status (specification Spec; the backend stores online as "active")
\* ======================================================================

\* the edges of the status graph, with the operation that may take each:
\* a heartbeat or a (re-)registration brings a machine online, only a
\* heartbeat makes it idle, only the reaper makes it offline, only an
\* executed command result makes it shutdown
C15_Edges ==
    {<<"active", "idle", "heartbeat">>, <<"idle", "active", "heartbeat">>,
     <<"offline", "active", "heartbeat">>, <<"offline", "idle", "heartbeat">>,
     <<"shutdown", "active", "heartbeat">>,
     <<"idle", "active", "register">>, <<"offline", "active", "register">>,
     <<"shutdown", "active", "register">>,
     <<"active", "offline", "mark_offline">>, <<"idle", "offline", "mark_offline">>,
     <<"active", "shutdown", "result">>, <<"idle", "shutdown", "result">>,
     <<"offline", "shutdown", "result">>}

\* C15: every change of Machine.status follows an edge of the graph, and no
\* status outside {online, idle, offline, shutdown} is reachable
C15_StatusGraph ==
    [][/\ \A mid \in DOMAIN machines' :
              machines'[mid].status \in {"active", "idle", "offline", "shutdown"}
       /\ \A mid \in DOMAIN machines :
              machines'[mid].status # machines[mid].status =>
                  /\ <<machines[mid].status, machines'[mid].status, resp'.op>> \in C15_Edges
                  /\ resp'.op = "result" => resp'.executed]_vars

\* C16: a heartbeat for a machine whose status is shutdown leaves it online
C16_ShutdownToOnline ==
    [][HeartbeatStep /\ machines[resp'.machine_id].status = "shutdown" =>
        machines'[resp'.machine_id].status = "active"]_vars

\* ======================================================================
\* The liveness reaper (MachineService.mark_offline_machines, run by the
\* celery beat entry "mark-offline" every 5 minutes)
\* ======================================================================

\* ---- specification SpecReaper: the beat entry keeps being run -----------
NextReaper ==
    \/ Tick
    \/ \E mac \in Macs : RegisterAgent(mac)
    \/ \E mid \in MachineIds, i \in IdleValues : Heartbeat(mid, i)
    \/ MarkOffline

SpecReaper == Init /\ [][NextReaper]_vars /\ WF_vars(MarkOffline)

\* the machine is online or idle and was last heard of longer ago than the
\* offline window
Silent(mid) ==
    /\ mid \in DOMAIN machines
    /\ machines[mid].status \in {"active", "idle"}
    /\ now - machines[mid].last_seen > OFFLINE_AFTER_MINUTES * 60

\* a reaper pass sets every silent machine offline
C17_FirstPass ==
    [][resp'.op = "mark_offline" =>
        \A mid \in MachineIds : Silent(mid) => machines'[mid].status = "offline"]_vars

\* C17: a machine in status online or idle that stays without a heartbeat for
\* longer than the offline window eventually becomes offline, and it does so
\* by the first reaper pass after the window has elapsed
C17_ReaperLiveness ==
    /\ \A mid \in MachineIds :
           Silent(mid) ~> (/\ mid \in DOMAIN machines
                           /\ \/ machines[mid].status = "offline"
                              \/ now - machines[mid].last_seen <= OFFLINE_AFTER_MINUTES * 60)
    /\ C17_FirstPass

\* a reaper pass has set a silent machine offline
C17_Witness ==
    /\ resp.op = "mark_offline"
    /\ \E mid \in DOMAIN machines :
           /\ machines[mid].status = "offline"
           /\ now - machines[mid].last_seen > OFFLINE_AFTER_MINUTES * 60

\* C18: a reaper pass changes only the status of the machines that are online
\* or idle with last_seen older than the offline window; every other machine,
\* all totals and all commands stay as they were, and the count it returns is
\* the number of machines it set offline
C18_ReaperFrame ==
    [][resp'.op = "mark_offline" =>
        /\ commands' = commands
        /\ energy_metrics' = energy_metrics
        /\ DOMAIN machines' = DOMAIN machines
        /\ \A mid \in DOMAIN machines :
               IF /\ machines[mid].status \in {"active", "idle"}
                  /\ machines[mid].last_seen < now - OFFLINE_AFTER_MINUTES * 60
               THEN machines'[mid] = [machines[mid] EXCEPT !.status = "offline"]
               ELSE machines'[mid] = machines[mid]
        /\ resp'.count = Cardinality({mid \in DOMAIN machines :
                                         /\ machines'[mid].status = "offline"
                                         /\ machines[mid].status # "offline"})]_vars

\* a reaper pass has set one machine offline and has left a machine in status
\* shutdown, silent for as long, alone
C18_Witness ==
    /\ resp.op = "mark_offline"
    /\ resp.count = 1
    /\ \E mid \in DOMAIN machines :
           /\ machines[mid].status = "shutdown"
           /\ machines[mid].last_seen < now - OFFLINE_AFTER_MINUTES * 60

\* ======================================================================
\* Registration (specification SpecServer)
\* ======================================================================

\* two characters that agree up to letter case and to the separator used
SameChar(c, d) ==
    \/ c = d
    \/ {c, d} = {":", "-"}
    \/ \E i \in DOMAIN LowerLetters : {c, d} = {LowerLetters[i], UpperLetters[i]}

\* two texts of one fingerprint
SameFingerprint(v, w) ==
    /\ Len(v) = Len(w)
    /\ \A i \in DOMAIN v : SameChar(v[i], w[i])

\* the service answered a registration with 200
ServerRegisterStep == server_resp'.op = "register" /\ server_resp'.code = 200

\* every stored fingerprint is in the uppercase colon-separated form, and no two
\* rows hold the same fingerprint
C19_OneRow ==
    /\ \A i \in DOMAIN server_machines :
           server_machines[i].mac_address = [k \in 1..MAC_LENGTH |->
               IF k % 3 = 0 THEN ":" ELSE server_machines[i].mac_address[k]]
    /\ \A i, j \in DOMAIN server_machines :
           SameFingerprint(server_machines[i].mac_address, server_machines[j].mac_address)
               => i = j

\* registering a fingerprint that a row already holds, in any spelling, returns
\* that row's id and adds no row
C19_SameId ==
    [][ServerRegisterStep =>
        \A i \in DOMAIN server_machines :
            SameFingerprint(server_machines[i].mac_address, server_resp'.raw) =>
                /\ server_resp'.machine_id = i
                /\ Len(server_machines') = Len(server_machines)
                /\ server_machines'[i].mac_address = server_machines[i].mac_address]_vars

\* C19: registration is idempotent by fingerprint: the same fingerprint, in any
\* letter case or with '-' separators, gets the same machine id, and exactly one
\* Machine row holds it
C19_RegisterIdempotent == []C19_OneRow /\ C19_SameId

\* a fingerprint was registered a second time, in a spelling other than the
\* stored one, and there is still one row
C19_Witness ==
    /\ server_resp.op = "register" /\ server_resp.code = 200
    /\ tokens_issued = 2
    /\ Len(server_machines) = 1
    /\ server_resp.machine_id = 1
    /\ server_resp.raw # server_machines[1].mac_address

\* C20: every registration the server answers returns a usable token: presented
\* on the next heartbeat, the token authenticates as the same machine
C20_UsableToken ==
    [][server_resp'.op = "register" /\ server_resp'.code # 422 =>
        /\ server_resp'.code = 200
        /\ \E t \in server_resp'.token :
               /\ tokens_by_hash(agent_tokens', t) # {}
               /\ \A k \in tokens_by_hash(agent_tokens', t) :
                      agent_tokens'[k].machine_id = server_resp'.machine_id]_vars

\* ======================================================================
\* Properties of the auth router of src/server (specification SpecLogin)
\* ======================================================================

LoginStep == auth_resp'.op = "login"
\* the operator a login request names, and whether the request's password is theirs
LoginUser == user_by_username(users, auth_resp'.username)
LoginRight == users[TheOne(LoginUser)].password_hash = <<"argon2id", auth_resp'.password>>
LoginLocked ==
    \E until \in users[TheOne(LoginUser)].locked_until : until > now

\* C21: Account lockout.  A wrong password for an unlocked active operator is
\* answered 401 and counted; the 10th consecutive one sets lockout-until to
\* now + 15 minutes.  While lockout-until is in the future every login for the
\* operator, with the wrong or the right password, is answered 429 and changes
\* nothing; once the window has elapsed the right password is answered 200 with
\* tokens, and clears the counter and the lockout.
C21_Step ==
    (LoginStep /\ LoginUser # {} /\ users[TheOne(LoginUser)].is_active) =>
        LET u == TheOne(LoginUser)
        IN  /\ LoginLocked =>
                   /\ auth_resp'.code = 429
                   /\ users' = users /\ refresh_tokens' = refresh_tokens
            /\ (~LoginLocked /\ ~LoginRight) =>
                   /\ auth_resp'.code = 401
                   /\ auth_resp'.access_token = {}
                   /\ IF users[u].failed_login_attempts + 1 = ACCOUNT_LOCKOUT_THRESHOLD
                      THEN users'[u].locked_until = {now + ACCOUNT_LOCKOUT_MINUTES * 60}
                      ELSE /\ users'[u].locked_until = users[u].locked_until
                           /\ users'[u].failed_login_attempts =
                                  users[u].failed_login_attempts + 1
            /\ (~LoginLocked /\ LoginRight) =>
                   /\ auth_resp'.code = 200
                   /\ auth_resp'.access_token # {} /\ auth_resp'.refresh_token # {}
                   /\ users'[u].failed_login_attempts = 0
                   /\ users'[u].locked_until = {}

C21_Lockout ==
    /\ [](\A u \in DOMAIN users :
             users[u].failed_login_attempts < ACCOUNT_LOCKOUT_THRESHOLD)
    /\ [][C21_Step]_vars

\* the right password has just been refused with 429 inside the lockout window
C21_Witness ==
    /\ auth_resp.op = "login" /\ auth_resp.code = 429
    /\ auth_resp.password = "admin123"
    /\ \E u \in user_by_username(users, auth_resp.username) :
           /\ verify_password(auth_resp.password, users[u].password_hash)
           /\ users[u].locked_until = {ACCOUNT_LOCKOUT_MINUTES * 60}
           /\ now > 0 /\ now < ACCOUNT_LOCKOUT_MINUTES * 60

\* ======================================================================
\* Properties of the sessions (specifications SpecSession, SpecBackendAuth)
\* ======================================================================

RefreshStep == auth_resp'.op = "refresh"
\* the unrevoked row of the refresh token a request presents (before the step)
RefreshRow == unrevoked_by_hash(refresh_tokens, auth_resp'.raw)
BackendRefreshStep == backend_auth_resp'.op = "refresh" /\ now' = now

\* C22 (src/server): a successful refresh marks the presented token's row revoked
\* before it answers, a revoked row stays revoked, and so a second refresh with
\* the same token is answered 401.
C22_RevokedBeforeAnswer ==
    /\ [][(RefreshStep /\ auth_resp'.code = 200) =>
             /\ RefreshRow # {}
             /\ refresh_tokens'[TheOne(RefreshRow)].revoked
             /\ refresh_code(users', refresh_tokens', auth_resp'.raw, now') = 401]_vars
    /\ [][\A k \in DOMAIN refresh_tokens :
             refresh_tokens[k].revoked => refresh_tokens'[k].revoked]_vars

\* C22: Refresh tokens are single-use: once a refresh with a token has succeeded,
\* a refresh with the same token is refused (Login -> Refresh -> Refresh fails with
\* 401 on the second refresh).  Stated for the backend's POST /auth/refresh.
C22_SingleUse ==
    [][(BackendRefreshStep /\ backend_auth_resp'.code = 200) =>
          \A token \in backend_auth_resp'.presented :
              AuthService_refresh_tokens(backend_users', token, now') = {}]_vars

\* the rows, revoked or not, that hold the digest of the presented token
PresentedRows == {k \in DOMAIN refresh_tokens :
                     refresh_tokens[k].token_hash = <<"sha256", auth_resp'.raw>>}

\* C23: A refresh is answered 401 without an access token when the presented
\* token is unknown, already revoked, expired, or owned by an inactive operator;
\* an expired row is marked revoked (at the time of the request), and in the
\* other three cases the table is left as it is.
C23_Step ==
    RefreshStep =>
        LET unknown == PresentedRows = {}
            revoked == PresentedRows # {} /\ \A k \in PresentedRows : refresh_tokens[k].revoked
            expired == {k \in PresentedRows : /\ ~refresh_tokens[k].revoked
                                              /\ refresh_tokens[k].expires_at < now}
            inactive == {k \in PresentedRows :
                            /\ ~refresh_tokens[k].revoked
                            /\ ~users[refresh_tokens[k].user_id].is_active}
        IN  (unknown \/ revoked \/ expired # {} \/ inactive # {}) =>
                /\ auth_resp'.code = 401
                /\ auth_resp'.access_token = {}
                /\ \A k \in expired : /\ refresh_tokens'[k].revoked
                                       /\ refresh_tokens'[k].revoked_at = {now}
                /\ expired = {} => refresh_tokens' = refresh_tokens

C23_RefusedRefresh == [][C23_Step]_vars

\* an unrevoked, unexpired token of a disabled operator has just been refused
C23_Witness ==
    /\ auth_resp.op = "refresh" /\ auth_resp.code = 401
    /\ \E k \in DOMAIN refresh_tokens :
           /\ refresh_tokens[k].token_hash = hash_refresh_token(auth_resp.raw)
           /\ ~refresh_tokens[k].revoked
           /\ refresh_tokens[k].expires_at >= now
           /\ ~users[refresh_tokens[k].user_id].is_active

LogoutStep == auth_resp'.op = "logout"

\* C24: Logout revokes the presented refresh token only if it belongs to the
\* authenticated caller: a row of the caller with the presented digest is revoked
\* and a refresh with that token is then answered 401; every other row, in
\* particular the presented token of another operator, is left as it was.
C24_Step ==
    LogoutStep =>
        \A k \in DOMAIN refresh_tokens :
            IF /\ auth_resp'.code = 204
               /\ k \in PresentedRows
               /\ refresh_tokens[k].user_id = auth_resp'.caller
            THEN /\ refresh_tokens'[k].revoked
                 /\ refresh_code(users', refresh_tokens', auth_resp'.raw, now') = 401
            ELSE refresh_tokens'[k] = refresh_tokens[k]

C24_LogoutOwnOnly == [][C24_Step]_vars

\* an operator has just logged out presenting the unrevoked token of another one
C24_Witness ==
    /\ auth_resp.op = "logout" /\ auth_resp.code = 204
    /\ \E k \in DOMAIN refresh_tokens :
           /\ refresh_tokens[k].token_hash = hash_refresh_token(auth_resp.raw)
           /\ refresh_tokens[k].user_id # auth_resp.caller
           /\ ~refresh_tokens[k].revoked

\* ======================================================================
\* Properties of the admin bootstrap (specifications SpecBootstrap,
\* SpecBootConc)
\* ======================================================================

AdminRows == user_by_username(users, <<"a", "d", "m", "i", "n">>)

\* C25: Admin bootstrap is idempotent: once the admin row exists, no step of any
\* bootstrap call changes the users table, whatever initial password the call
\* is configured with; the password hash of the row is the one it had.
C25_Idempotent == [][AdminRows # {} => users' = users]_vars

\* a call configured with another password than the row's has found the admin
C25_Witness ==
    \E w \in Workers, u \in AdminRows :
        /\ boot[w].event = "admin_already_exists"
        /\ boot[w].outcome = "returned"
        /\ ~verify_password(admin_password(boot[w].password), users[u].password_hash)

\* C26: When the workers run the bootstrap concurrently on a store without an
\* admin, there is never more than one operator row, it has role admin and the
\* normalized configured username, admin_user_created is logged exactly once for
\* it, at most one worker at a time has added a row to its session, and when all
\* workers are done exactly one row exists and every worker either created it or
\* found it under the lock and added nothing.
C26_OneAdmin ==
    /\ Len(users) <= 1
    /\ boot_log.admin_user_created = Len(users)
    /\ \A u \in DOMAIN users : /\ users[u].username = <<"a", "d", "m", "i", "n">>
                               /\ users[u].role = <<"a", "d", "m", "i", "n">>
    /\ Cardinality({w \in Workers : boot[w].adds > 0}) <= 1
    /\ (\A w \in Workers : boot[w].pc = "done") =>
           /\ Len(users) = 1
           /\ \A w \in Workers :
                  \/ boot[w].event = "admin_user_created" /\ boot[w].adds = 1
                  \/ boot[w].event = "admin_already_exists" /\ boot[w].adds = 0

\* all workers are done: one created the admin, another one found it
C26_Witness ==
    /\ \A w \in Workers : boot[w].pc = "done"
    /\ \E w \in Workers : boot[w].event = "admin_user_created"
    /\ \E w \in Workers : boot[w].event = "admin_already_exists"
    /\ Len(users) = 1

\* C27: If the commit of the added admin row fails with a duplicate key
\* (IntegrityError), the call rolls back exactly once, does not raise and
\* returns normally; the users table is left as it is.
C27_IntegrityHandled ==
    [][\A w \in Workers :
          (boot[w].pc = "commit" /\ boot'[w].pc = "done" /\ AdminRows # {}) =>
              /\ boot'[w].outcome = "returned"
              /\ boot'[w].rollbacks = 1
              /\ users' = users]_vars

\* a call has met the duplicate key at its commit and has returned
C27_Witness ==
    \E w \in Workers :
        /\ boot[w].event = "admin_creation_skipped"
        /\ boot[w].adds = 1 /\ boot[w].commits = 1
        /\ boot[w].outcome = "returned"

\* C28: If a bootstrap statement, the enum sanity check included, fails with a
\* DBAPIError, the call raises the error to its caller and has called rollback
\* exactly once.
C28_RaisedRollbackOnce ==
    \A w \in Workers :
        boot[w].event = "ensure_admin_exists_db_error" =>
            boot[w].outcome = "raised" /\ boot[w].rollbacks = 1

MembersIgnoringCase(t) ==
    {m \in UserRoleMembers :
        /\ Len(member_value(m)) = Len(t)
        /\ \A i \in DOMAIN t :
               \/ member_value(m)[i] = t[i]
               \/ \E j \in DOMAIN LowerLetters :
                      member_value(m)[i] = LowerLetters[j] /\ t[i] = UpperLetters[j]}

\* C30: Role normalization.  For a string s, UserRole(s) and _coerce_role(s) both
\* return the member whose value is s in lower case when that is admin or viewer,
\* and both raise ValueError otherwise (the empty string included); a value that
\* is not a string raises ValueError; a member is returned as it is; the value
\* of every member is in lower case.
C30_RoleNormalized ==
    /\ \A m \in UserRoleMembers :
           \A i \in DOMAIN member_value(m) :
               \E j \in DOMAIN LowerLetters : member_value(m)[i] = LowerLetters[j]
    /\ role_call.value.kind = "str" =>
           /\ role_call.user_role = MembersIgnoringCase(role_call.value.v)
           /\ role_call.coerced = MembersIgnoringCase(role_call.value.v)
           /\ Cardinality(role_call.user_role) <= 1
    /\ role_call.value.kind = "int" =>
           role_call.user_role = {} /\ role_call.coerced = {}
    /\ role_call.value.kind = "member" =>
           /\ role_call.user_role = {role_call.value.v}
           /\ role_call.coerced = {role_call.value.v}

\* 'Admin' has just been normalized to the member ADMIN
C30_Witness ==
    /\ role_call.value = [kind |-> "str", v |-> <<"A", "d", "m", "i", "n">>]
    /\ role_call.user_role = {"ADMIN"}
    /\ role_call.coerced = {"ADMIN"}

\* ---------------------------------------------------------------------------
\* Claims C31..C40.
\* ---------------------------------------------------------------------------

TerminalStatuses == {"executed", "rejected", "expired"}

\* C35: terminal command statuses are absorbing: once a command is executed,
\* rejected or expired, no later operation (a result report, a poll, a new
\* issue) changes its status.
C35_TerminalAbsorbing ==
    [][\A c \in DOMAIN commands :
          commands[c].status \in TerminalStatuses
              => commands'[c].status = commands[c].status
      ]_vars


\* the usernames of requests that name no operator of the table
UnknownUsernames == {sanitize_username(u) : u \in LoginUsernames}
                        \ {users[i].username : i \in DOMAIN users}

\* the active operators a given password is wrong for
WrongFor(p) == {i \in DOMAIN users : /\ users[i].is_active
                                     /\ ~verify_password(p, users[i].password_hash)}

\* the answer login gives is the one login_answer computes from the table
C40_Answered ==
    [][auth_resp'.op = "login" =>
          LET reply == login_answer(users, auth_resp'.username, auth_resp'.password, now)
          IN  auth_resp'.code = reply.code /\ auth_resp'.error = reply.error
      ]_vars

\* C40 as stated: after any history of login attempts, a login with a wrong
\* password for an existing active operator and a login for a non-existent
\* username receive the same status code and error body.
C40_NoEnumeration ==
    \A p \in Passwords, q \in Passwords : \A i \in WrongFor(p), u \in UnknownUsernames :
        login_answer(users, users[i].username, p, now) = login_answer(users, u, q, now)

C40_Unlocked ==
    \A p \in Passwords, q \in Passwords : \A i \in WrongFor(p), u \in UnknownUsernames :
        ~is_locked(users[i], now)
            => login_answer(users, users[i].username, p, now)
                   = login_answer(users, u, q, now)

\* C40, amended: while the operator is not locked out, a login with a wrong
\* password for an existing active operator and a login for a non-existent
\* username receive the same status code and error body (401,
\* invalid_credentials), whatever the history of login attempts.
C40_NoEnumerationUnlessLocked == []C40_Unlocked /\ C40_Answered

\* an unknown username was refused after a wrong password for the admin was counted
C40_Witness ==
    /\ auth_resp.op = "login"
    /\ auth_resp.username \in UnknownUsernames
    /\ auth_resp.code = 401
    /\ \E i \in DOMAIN users :
           users[i].failed_login_attempts > 0 /\ ~is_locked(users[i], now)


\* ---- the agent of src/agent/agent.py (SpecOffline, SpecSave) -----------

\* the entries of a queue are in arrival order: payloads are numbered as built
InArrivalOrder(queue) == \A i \in DOMAIN queue, j \in DOMAIN queue : i < j => queue[i] < queue[j]

\* the last n entries of a list
LastEntries(list, n) ==
    IF Len(list) <= n THEN list ELSE SubSeq(list, Len(list) - n + 1, Len(list))

C31_Bounded ==
    /\ Len(qagent.queue) <= offline_queue_max
    /\ InArrivalOrder(qagent.queue)
    /\ disk.queue.state = "complete" => disk.queue.body = qagent.queue

\* a heartbeat that met no connection: the step pushes it
C31_Push ==
    [][(last_post'.op = "send_heartbeat" /\ last_post'.outcome = "unreachable") =>
          /\ qagent'.queue =
                 LastEntries(Append(qagent.queue, last_post'.payloads[1]), offline_queue_max)
          /\ Len(qagent.queue) >= offline_queue_max
                 => qagent'.queue = Append(Tail(qagent.queue), last_post'.payloads[1])
      ]_vars

\* a flush leaves the heartbeats that could not be sent, in order
C31_Flush ==
    [][last_post'.op = "flush" =>
          /\ Len(qagent'.queue) <= Len(qagent.queue)
          /\ \A i \in DOMAIN qagent'.queue : \E j \in DOMAIN qagent.queue :
                 qagent'.queue[i] = qagent.queue[j]
          /\ last_post'.outcome = "ok" => qagent'.queue = <<>>
      ]_vars

\* C31: the agent's offline queue is a bounded FIFO: starting from an empty
\* queue, after any sequence of push and flush operations its length never
\* exceeds offline_queue_max; a push onto a full queue removes the oldest entry
\* and appends the new one, so the queue holds the most recent entries in
\* arrival order.
C31_BoundedFifo == []C31_Bounded /\ C31_Push /\ C31_Flush

\* a push onto a full queue has dropped the oldest heartbeat
C31_Witness ==
    /\ last_post.op = "send_heartbeat"
    /\ last_post.outcome = "unreachable"
    /\ Len(qagent.queue) = offline_queue_max
    /\ qagent.queue[1] > 1
    /\ qagent.queue[Len(qagent.queue)] = last_post.payloads[1]

\* C32: the agent's persisted state (offline queue file and config file) is
\* written atomically: at whatever point a save is interrupted, the file on
\* disk holds the complete previous content or the complete new content, never
\* an empty or partial body.
C32_AtomicSave ==
    /\ disk.queue.state \in {"missing", "complete"}
    /\ disk.config.state \in {"missing", "complete"}

\* C33, first part: a heartbeat answered 401 clears the token and the machine
\* id, in the config and in the file
C33_Cleared ==
    [][(last_post'.op = "send_heartbeat" /\ last_post'.outcome = "401") =>
          /\ qagent'.agent_token = {} /\ qagent'.machine_id = {}
          /\ disk'.config = json_dump(NoFile, [agent_token |-> {}, machine_id |-> {}])
      ]_vars

\* C33, second part: while the token is cleared the agent sends no heartbeat:
\* the next request after the 401 is the registration
C33_RegistersFirst ==
    [][last_post'.path = "/api/agents/heartbeat" => qagent.agent_token # {}]_vars

\* C33, third part: a heartbeat that met no connection is appended to the
\* offline queue and the token is kept
C33_Queued ==
    [][(last_post'.op = "send_heartbeat" /\ last_post'.outcome = "unreachable") =>
          /\ qagent'.queue # <<>>
          /\ qagent'.queue[Len(qagent'.queue)] = last_post'.payloads[1]
          /\ qagent'.agent_token = qagent.agent_token /\ qagent'.agent_token # {}
          /\ disk'.config = disk.config
      ]_vars

\* C33: when a heartbeat is answered 401 the agent clears its persisted token
\* and machine id, and on its next loop iteration re-registers before sending
\* any further heartbeat; a heartbeat that fails with a transport error is
\* instead appended to the offline queue and the token is kept.
C33_Heartbeat401 == C33_Cleared /\ C33_RegistersFirst /\ C33_Queued


\* ---- startup of src/server (SpecStartup) --------------------------------

\* the steps of lifespan, in the order of the code
LifespanSteps == <<"config", "connect", "schema", "bootstrap">>

\* the steps that went through so far are the first ones, in that order
C34_InOrder ==
    /\ Len(startup.done) <= Len(LifespanSteps)
    /\ startup.done = SubSeq(LifespanSteps, 1, Len(startup.done))

\* serving: every step went through, with what it checked
C34_Serving ==
    startup.pc = "serving" =>
        /\ startup.done = LifespanSteps
        /\ validate(TheOne(startup.settings)) = {}
        /\ startup.db_ready = {TRUE}
        /\ startup.schema_ready = {TRUE}
        /\ boot[Master].pc = "done" /\ boot[Master].outcome = "returned"
        /\ user_by_username(users, admin_username) # {}
        /\ startup.exit_code = {}

\* a failed step: exit status 1, and no request was answered
C34_Exited ==
    /\ startup.pc = "exited" =>
           /\ startup.exit_code = {1}
           /\ auth_resp = NoAuthResp
           /\ \/ validate(TheOne(startup.settings)) # {}
              \/ startup.db_ready = {FALSE}
              \/ startup.schema_ready = {FALSE}
              \/ boot[Master].outcome = "raised"
    /\ startup.pc # "serving" => auth_resp = NoAuthResp
    /\ (boot[Master].pc = "done" /\ boot[Master].outcome = "raised")
           => startup.pc \in {"bootstrap", "exited"}

\* the connect loop makes at most max_attempts tries
C34_BoundedRetries ==
    /\ startup.attempts <= max_attempts
    /\ startup.pc = "connect" => startup.attempts < max_attempts
    /\ startup.db_ready = {FALSE} => startup.attempts = max_attempts

\* a process that exited does nothing more
C34_ExitIsFinal == [][startup.pc = "exited" => startup' = startup]_vars

\* C34: the server reaches the serving state only if configuration
\* validation, the bounded database-connect retries, schema initialisation and
\* admin bootstrap have all succeeded, in that order; if any of them fails the
\* process exits with a non-zero status without serving any request, and the
\* connect loop terminates after at most max_attempts tries.
C34_Startup ==
    [](C34_InOrder /\ C34_Serving /\ C34_Exited /\ C34_BoundedRetries) /\ C34_ExitIsFinal

\* the service answers a login after a start in which the database was not
\* there at once
C34_Witness ==
    /\ startup.pc = "serving"
    /\ startup.attempts > 1
    /\ auth_resp.op = "login"

\* a start that gave up on the database after max_attempts tries
C34_WitnessExhausted ==
    startup.pc = "exited" /\ startup.db_ready = {FALSE} /\ startup.attempts = max_attempts


\* ---- requests handled at the same time ---------------------------------

\* no request is in flight
Quiet == \A w \in Workers : sessions[w].pc = "idle"

\* how often an entry occurs in a list
RECURSIVE Occurrences(_, _)
Occurrences(list, x) ==
    IF list = <<>> THEN 0
    ELSE (IF Head(list) = x THEN 1 ELSE 0) + Occurrences(Tail(list), x)

\* C36: a refresh token yields at most one access token in every
\* interleaving: when two refresh requests present the same valid token at the
\* same time, at most one of them succeeds and the other is answered 401.
C36_OneAccessToken ==
    \A raw \in RawRefreshTokens :
        Occurrences(sessions["w1"].granted \o sessions["w2"].granted, raw) <= 1

\* C37: the lockout cannot be bypassed by concurrency: for every interleaving
\* of login requests for one operator, once 10 wrong-password attempts have
\* completed with no successful login in between, the operator's lockout-until
\* is set (no failed attempt is lost from the counter).
C37_NoLostAttempt ==
    wrong_logins >= ACCOUNT_LOCKOUT_THRESHOLD
        => \A i \in user_by_username(users, AdminName) : users[i].locked_until # {}

\* the energy of the history rows of a machine, summed
RECURSIVE SumEnergy(_, _)
SumEnergy(metrics, mid) ==
    IF metrics = <<>> THEN 0
    ELSE (IF Head(metrics).machine_id = mid THEN Head(metrics).energy_kwh ELSE 0)
             + SumEnergy(Tail(metrics), mid)

\* C38: accounting consistency under concurrency: after any interleaving of
\* heartbeats for the same machine, the machine's cumulative energy total
\* equals the sum of the energy deltas of its history rows (no heartbeat's
\* increment is lost).
C38_NoLostIncrement ==
    Quiet => \A mid \in DOMAIN machines :
                 machines[mid].total_energy_kwh = SumEnergy(energy_metrics, mid)

\* C39: for every interleaving of a reaper pass with a heartbeat of the same
\* machine, after both have committed a machine whose last_seen lies within
\* the offline window is not in status offline.
C39_FreshNotOffline ==
    Quiet => \A mid \in DOMAIN machines :
                 machines[mid].last_seen >= now - OFFLINE_AFTER_MINUTES * 60
                     => machines[mid].status # "offline"

====
